---- MODULE Spec2Model ----
(***************************************************************************)
(* dclean: deletion safety gate (safeDelete.js), cleanup executor          *)
(* (cleaner/index.js) and the cleanup tail of the CLI entry point          *)
(* (bin/cli.js).                                                           *)
(*                                                                         *)
(* A string is a sequence of atoms.  An atom is either the path separator  *)
(* "/", the dot ".", or an indivisible run of other characters, so string  *)
(* equality, concatenation and String.prototype.startsWith are equality,   *)
(* \o and sequence prefix on atom sequences.                               *)
(***************************************************************************)
EXTENDS Integers, Sequences, FiniteSets, TLC

VARIABLES
    cwd,          \* process.cwd(), an absolute normalised path
    sdPath,       \* dirPath argument of the safeDelete call in progress
    sdDryRun,     \* options.dryRun of that call
    sdPc,         \* position inside safeDelete
    sdError,      \* message of the error safeDelete rejected with
    validated,    \* dirPaths for which validatePathForDeletion returned normally
    trashCalls,   \* the calls made to the trash primitive, with their outcome
    options,      \* program.opts(): dryRun, yes, interactive, onlyAiDevTools
    scanFound,    \* what runAllScans reported: hasAnything, hasDeletable
    mainPc,       \* position inside main()
    exitCode,     \* argument of process.exit, -1 while running
    selections,   \* the selections returned by promptForCleanup
    cleanupPc,    \* position inside performCleanup
    items,        \* performCleanup: the deduplicated items
    idx,          \* performCleanup: index of the item of the current iteration
    totalFreed,   \* performCleanup: running total
    results,      \* performCleanup: per-item outcomes
    cleanupResult,\* the value performCleanup resolved with
    history,      \* entries of history.json
    confirmAnswer,\* what the confirmation prompt answered, "none" while not asked
    scanFlags,    \* runAllScans: the options object, one flag per registry key
    paths,        \* runAllScans: the scan roots
    derivedData,  \* the file system: ~/Library/Developer/Xcode/DerivedData
    scanPc,       \* position inside runAllScans
    scanResults,  \* the results object of runAllScans, the scanResults of main()
    scanTotal,    \* results.totalSize
    scanTask,     \* per registry entry, the position of its async callback ("caught": it
                  \* returned through its catch block)
    rootTask,     \* per per-root category, the scan(p) call of each root
    globalScanned,\* XcodeScanner: this.globalScanned
    ddReads,      \* how often DerivedData was listed
    scannerRuns,  \* the properties whose scanner's scan was called
    sizeCache,    \* fileSize.js: the module's sizeCache map
    sizeReq,      \* the getDirectorySize calls of the process
    walks,        \* per resolved path, the walks caching requests started since the last clear
    diskBytes,    \* the file system: what a walk of each directory adds up to
    clock,        \* Date.now() as getMetadata reads it
    mtime,        \* what getLastModified resolves with
    metaPc,       \* position inside getMetadata
    metadata,     \* the value getMetadata resolved with
    disk,         \* the file system: per absolute path its kind, entries, link target, size
    fault,        \* the one lstat or readdir call that fails, and its error code
    scanKind,     \* the property of the scanner whose scan(basePath) is running
    scanRoot,     \* scan: basePath, the root of that scan
    maxDepth,     \* walkDirectory: options.maxDepth
    targetIdx,    \* scan: which of the scanner's target names is being looked for
    foundDirs,    \* scan: the directories its findDirectories calls returned so far
    scannerPc,    \* position inside scan
    scanOut,      \* how the promise of scan(basePath).catch(...) settled in runAllScans
    walkPc,       \* position of the walkDirectory call in progress
    walkTodo,     \* walkDirectory: the pending calls walk(path, depth), next first
    visited,      \* walkDirectory: the paths the callback was invoked with, in order
    statted,      \* walkDirectory: the paths lstat was called with
    listed        \* walkDirectory: the paths readdir was called with

sdVars == <<sdPath, sdDryRun, sdPc, sdError, validated, trashCalls>>
cleanupVars == <<cleanupPc, items, idx, totalFreed, results, cleanupResult>>
mainVars == <<options, scanFound, mainPc, exitCode, selections, history, confirmAnswer>>
scanVars == <<scanFlags, paths, derivedData, scanPc, scanResults, scanTotal, scanTask,
              rootTask, globalScanned, ddReads, scannerRuns>>
sizeVars == <<sizeCache, sizeReq, walks, diskBytes>>
metaVars == <<clock, mtime, metaPc, metadata>>
\* the state of the scan phase and of the utilities, which the deletion and
\* cleanup phases leave alone
walkVars == <<disk, fault, scanKind, scanRoot, maxDepth, targetIdx, foundDirs, scannerPc,
              scanOut, walkPc, walkTodo, visited, statted, listed>>
scanPhaseVars == <<scanVars, sizeVars, metaVars, walkVars>>
vars == <<cwd, sdVars, cleanupVars, mainVars, scanPhaseVars>>

----------------------------------------------------------------------------
(* Bounds *)

MaxSegs == 3
MaxSels == 2
MaxItems == 2
MaxEnabled == 2
MaxRequests == 2
MaxChecked == 2
MaxHalfDays == 8

----------------------------------------------------------------------------
(* Strings and paths *)

Sep == "/"
Dot == "."

EmptyStr == <<>>
RootStr == <<Sep>>

\* String.prototype.startsWith
StartsWith(s, prefix) ==
    /\ Len(s) >= Len(prefix)
    /\ SubSeq(s, 1, Len(prefix)) = prefix

\* os.homedir()
HomeDir == <<Sep, "u">>

\* split on the separator: the segments of a string, empty ones included
RECURSIVE SplitFrom(_, _, _, _)
SplitFrom(s, i, cur, out) ==
    IF i > Len(s) THEN Append(out, cur)
    ELSE IF s[i] = Sep THEN SplitFrom(s, i + 1, <<>>, Append(out, cur))
    ELSE SplitFrom(s, i + 1, Append(cur, s[i]), out)

Split(s) == SplitFrom(s, 1, <<>>, <<>>)

\* normalizeString(path, allowAboveRoot = false): drop "" and ".", ".." pops
RECURSIVE NormalizeSegs(_, _, _)
NormalizeSegs(segs, i, out) ==
    IF i > Len(segs) THEN out
    ELSE IF segs[i] = <<>> \/ segs[i] = <<Dot>> THEN NormalizeSegs(segs, i + 1, out)
    ELSE IF segs[i] = <<Dot, Dot>>
         THEN NormalizeSegs(segs, i + 1,
                            IF Len(out) = 0 THEN out ELSE SubSeq(out, 1, Len(out) - 1))
    ELSE NormalizeSegs(segs, i + 1, Append(out, segs[i]))

RECURSIVE JoinSegs(_, _)
JoinSegs(segs, i) ==
    IF i > Len(segs) THEN <<>>
    ELSE <<Sep>> \o segs[i] \o JoinSegs(segs, i + 1)

\* the absolute string of a list of segments
AbsOf(segs) == IF Len(segs) = 0 THEN RootStr ELSE JoinSegs(segs, 1)

IsAbsolute(s) == Len(s) > 0 /\ s[1] = Sep

\* path.resolve(p) with the given working directory
PathResolve(wd, p) ==
    LET full == IF IsAbsolute(p) THEN p
                ELSE IF Len(p) = 0 THEN wd
                ELSE wd \o <<Sep>> \o p
    IN AbsOf(NormalizeSegs(Split(full), 1, <<>>))

\* path.join(a, b)
PathJoin(a, b) ==
    LET full == a \o <<Sep>> \o b
        segs == NormalizeSegs(Split(full), 1, <<>>)
    IN IF IsAbsolute(full) THEN AbsOf(segs)
       ELSE IF Len(segs) = 0 THEN <<Dot>>
       ELSE SubSeq(JoinSegs(segs, 1), 2, Len(JoinSegs(segs, 1)))

----------------------------------------------------------------------------
(* safeDelete.js *)

ProtectedNames ==
    <<  <<"Desktop">>, <<"Documents">>, <<"Downloads">>, <<Dot, "ssh">>, <<"Library">>  >>

getProtectedPaths(wd) ==
    LET home == HomeDir
    IN [i \in 1..(Len(ProtectedNames) + 1) |->
            PathResolve(wd, IF i = 1 THEN home ELSE PathJoin(home, ProtectedNames[i - 1]))]

ErrInvalidPath == <<"Invalid path for deletion">>
ErrOutsideHome == <<"Can only delete within home directory">>
ErrProtected == <<"Cannot delete protected directory: ">>
ErrPermission == <<"Permission denied: ">>
NoError == <<>>

\* faulty variant of validatePathForDeletion: a protected directory also
\* blocks everything beneath it
validatePathForDeletion_BlocksContents(wd, dirPath) ==
    IF dirPath = EmptyStr \/ dirPath = RootStr THEN ErrInvalidPath
    ELSE
        LET resolved == PathResolve(wd, dirPath)
            home == PathResolve(wd, HomeDir)
            all == getProtectedPaths(wd)
            protectedPaths == {all[i] : i \in 1..Len(all)} \ {home}
        IN IF ~StartsWith(resolved, home) \/ resolved = home THEN ErrOutsideHome
           ELSE IF \E p \in protectedPaths : StartsWith(resolved, p) THEN ErrProtected \o dirPath
           ELSE NoError

\* the message of the error validatePathForDeletion throws, NoError if it returns
validatePathForDeletion(wd, dirPath) ==
    IF dirPath = EmptyStr \/ dirPath = RootStr THEN ErrInvalidPath
    ELSE
        LET resolved == PathResolve(wd, dirPath)
            home == PathResolve(wd, HomeDir)
            all == getProtectedPaths(wd)
            protectedPaths == {all[i] : i \in 1..Len(all)} \ {home}
        IN IF ~StartsWith(resolved, home) \/ resolved = home THEN ErrOutsideHome
           ELSE IF \E p \in protectedPaths : resolved = p THEN ErrProtected \o dirPath
           ELSE NoError

\* the outcomes of the trash primitive: it resolves, or rejects with an error
TrashOk == [ok |-> TRUE, code |-> "", message |-> <<>>]
TrashOutcomes ==
    { TrashOk,
      [ok |-> FALSE, code |-> "EACCES", message |-> <<"access denied">>],
      [ok |-> FALSE, code |-> "ENOENT", message |-> <<"not found">>],
      [ok |-> FALSE, code |-> "", message |-> <<"unknown error">>] }

\* faulty variant of safeDeleteEnter: the validation call is missing
safeDeleteEnter_NoValidation(wd, dirPath, dryRun) ==
    IF dryRun
    THEN [pc |-> "resolved", error |-> NoError, valid |-> FALSE]
    ELSE [pc |-> "trash", error |-> NoError, valid |-> FALSE]

\* safeDelete up to its first await: validate, resolve, return early on dryRun.
\* pc "trash": about to call trash; "resolved"/"rejected": the promise settled.
safeDeleteEnter(wd, dirPath, dryRun) ==
    LET err == validatePathForDeletion(wd, dirPath)
    IN IF err # NoError
       THEN [pc |-> "rejected", error |-> err, valid |-> FALSE]
       ELSE IF dryRun
       THEN [pc |-> "resolved", error |-> NoError, valid |-> TRUE]
       ELSE [pc |-> "trash", error |-> NoError, valid |-> TRUE]

\* faulty variant of safeDeleteCatch: ENOENT is rethrown like any other error
safeDeleteCatch_EnoentRethrown(outcome, dirPath) ==
    IF outcome.ok THEN [pc |-> "resolved", error |-> NoError]
    ELSE IF outcome.code = "EACCES"
    THEN [pc |-> "rejected", error |-> ErrPermission \o dirPath]
    ELSE [pc |-> "rejected", error |-> outcome.message]

\* safeDelete's try/catch around `await trash([resolved], { glob: false })`
safeDeleteCatch(outcome, dirPath) ==
    IF outcome.ok THEN [pc |-> "resolved", error |-> NoError]
    ELSE IF outcome.code = "EACCES"
    THEN [pc |-> "rejected", error |-> ErrPermission \o dirPath]
    ELSE IF outcome.code = "ENOENT"
    THEN [pc |-> "resolved", error |-> NoError]
    ELSE [pc |-> "rejected", error |-> outcome.message]

\* a call safeDelete(dirPath, { dryRun }): the synchronous part
SafeDeleteCall(dirPath, dryRun) ==
    LET r == safeDeleteEnter(cwd, dirPath, dryRun)
    IN /\ sdPath' = dirPath
       /\ sdDryRun' = dryRun
       /\ sdPc' = r.pc
       /\ sdError' = r.error
       /\ validated' = IF r.valid THEN validated \cup {dirPath} ELSE validated
       /\ trashCalls' = trashCalls

\* safeDelete calls trash with the resolved path and the call settles
SafeDeleteTrash ==
    /\ sdPc = "trash"
    /\ \E outcome \in TrashOutcomes :
        LET r == safeDeleteCatch(outcome, sdPath)
        IN /\ trashCalls' = Append(trashCalls,
                                   [paths |-> <<PathResolve(cwd, sdPath)>>,
                                    glob |-> FALSE,
                                    dirPath |-> sdPath,
                                    outcome |-> outcome])
           /\ sdPc' = r.pc
           /\ sdError' = r.error
    /\ UNCHANGED <<cwd, scanPhaseVars, sdPath, sdDryRun, validated, cleanupVars, mainVars>>

----------------------------------------------------------------------------
(* Inputs *)

RECURSIVE SeqsUpTo(_, _)
SeqsUpTo(S, n) ==
    IF n = 0 THEN {<<>>}
    ELSE LET shorter == SeqsUpTo(S, n - 1)
         IN shorter \cup {Append(q, x) : q \in shorter, x \in S}

\* the path segments inputs are built from
SegPool ==
    { <<>>, <<Dot>>, <<Dot, Dot>>, <<"u">>, <<"u", "2">>, <<"x">>,
      <<"Desktop">>, <<"Documents">>, <<"Downloads">>, <<Dot, "ssh">>, <<"Library">> }

RECURSIVE Render(_, _)
Render(segs, i) ==
    IF i > Len(segs) THEN <<>>
    ELSE IF i = Len(segs) THEN segs[i]
    ELSE segs[i] \o <<Sep>> \o Render(segs, i + 1)

\* every string of at most MaxSegs segments joined by "/" (a leading empty
\* segment makes it absolute, a trailing one gives a trailing slash)
InputPaths == {Render(segs, 1) : segs \in SeqsUpTo(SegPool, MaxSegs)}

CwdPool == {RootStr, HomeDir, <<Sep, "x">>}

----------------------------------------------------------------------------
(* cleaner/index.js *)

\* an item without a size field (`item.size || 0`)
NoSize == -1

\* lastModifiedDays of an unreadable mtime: Infinity, above every number of days
LmdInfinity == 2147483647

\* item.size || 0
SizeOrZero(size) == IF size = NoSize \/ size = 0 THEN 0 ELSE size

\* faulty variant of dedupeAdd: a later occurrence overwrites the entry
dedupeAdd_LastWins(byPath, item) ==
    LET entry == [path |-> item.path,
                  size |-> SizeOrZero(item.size),
                  lastModifiedDays |-> item.lastModifiedDays]
    IN IF \E k \in 1..Len(byPath) : byPath[k].path = item.path
       THEN [k \in 1..Len(byPath) |-> IF byPath[k].path = item.path THEN entry ELSE byPath[k]]
       ELSE Append(byPath, entry)

\* the loop body of flattenAndDedupe for one item: byPath as an insertion-ordered list
dedupeAdd(byPath, item) ==
    IF \E k \in 1..Len(byPath) : byPath[k].path = item.path
    THEN byPath
    ELSE Append(byPath, [path |-> item.path,
                         size |-> SizeOrZero(item.size),
                         lastModifiedDays |-> item.lastModifiedDays])

RECURSIVE dedupeItems(_, _, _)
dedupeItems(byPath, selItems, j) ==
    IF j > Len(selItems) THEN byPath
    ELSE dedupeItems(dedupeAdd(byPath, selItems[j]), selItems, j + 1)

RECURSIVE dedupeSelections(_, _, _)
dedupeSelections(byPath, sels, i) ==
    IF i > Len(sels) THEN byPath
    ELSE IF ~sels[i].hasItems THEN dedupeSelections(byPath, sels, i + 1)
    ELSE dedupeSelections(dedupeItems(byPath, sels[i].items, 1), sels, i + 1)

flattenAndDedupe(sels) == dedupeSelections(<<>>, sels, 1)

\* results.filter(pred).length
RECURSIVE CountSuccess(_, _, _)
CountSuccess(rs, k, want) ==
    IF k > Len(rs) THEN 0
    ELSE (IF rs[k].success = want THEN 1 ELSE 0) + CountSuccess(rs, k + 1, want)

\* faulty variant of cleanupOutcome: no catch block, a rejection of safeDelete
\* rejects performCleanup
cleanupOutcome_NoCatch(item, pc, error) ==
    IF pc = "resolved"
    THEN [freed |-> item.size,
          result |-> [path |-> item.path, size |-> item.size, success |-> TRUE, error |-> NoError],
          pc |-> "loop"]
    ELSE [freed |-> 0,
          result |-> [path |-> item.path, size |-> NoSize, success |-> FALSE, error |-> error],
          pc |-> "rejected"]

\* performCleanup's loop body once safeDelete settled (or on dryRun): the try
\* block's success path and the catch block
cleanupOutcome(item, pc, error) ==
    IF pc = "resolved"
    THEN [freed |-> item.size,
          result |-> [path |-> item.path, size |-> item.size, success |-> TRUE, error |-> NoError],
          pc |-> "loop"]
    ELSE [freed |-> 0,
          result |-> [path |-> item.path, size |-> NoSize, success |-> FALSE, error |-> error],
          pc |-> "loop"]

\* faulty variant of cleanupBranch: dryRun is not looked at
cleanupBranch_IgnoresDryRun(dryRun) == "delete"

\* what performCleanup does with an item when dryRun is set: "dry" records the
\* item without calling safeDelete, "delete" calls safeDelete(item.path, { dryRun: false })
cleanupBranch(dryRun) == IF dryRun THEN "dry" ELSE "delete"

\* performCleanup up to the loop
PerformCleanupStart ==
    /\ mainPc = "cleanup"
    /\ cleanupPc = "idle"
    /\ items' = flattenAndDedupe(selections)
    /\ totalFreed' = 0
    /\ results' = <<>>
    /\ idx' = 1
    /\ cleanupPc' = "loop"
    /\ UNCHANGED <<cwd, scanPhaseVars, sdVars, mainVars, cleanupResult>>

\* one iteration under dryRun
PerformCleanupDryItem ==
    /\ cleanupPc = "loop"
    /\ idx <= Len(items)
    /\ cleanupBranch(options.dryRun) = "dry"
    /\ LET o == cleanupOutcome(items[idx], "resolved", NoError)
       IN /\ totalFreed' = totalFreed + o.freed
          /\ results' = Append(results, o.result)
          /\ cleanupPc' = o.pc
    /\ idx' = idx + 1
    /\ UNCHANGED <<cwd, scanPhaseVars, sdVars, mainVars, items, cleanupResult>>

\* one iteration without dryRun: the call of safeDelete, up to its await
PerformCleanupDelete ==
    /\ cleanupPc = "loop"
    /\ idx <= Len(items)
    /\ cleanupBranch(options.dryRun) = "delete"
    /\ SafeDeleteCall(items[idx].path, FALSE)
    /\ cleanupPc' = "await"
    /\ UNCHANGED <<cwd, scanPhaseVars, mainVars, items, idx, totalFreed, results, cleanupResult>>

\* safeDelete settled: the rest of the try block, or the catch block
PerformCleanupSettle ==
    /\ cleanupPc = "await"
    /\ sdPc \in {"resolved", "rejected"}
    /\ LET o == cleanupOutcome(items[idx], sdPc, sdError)
       IN /\ totalFreed' = totalFreed + o.freed
          /\ results' = Append(results, o.result)
          /\ cleanupPc' = o.pc
    /\ idx' = idx + 1
    /\ sdPc' = "idle"
    /\ UNCHANGED <<cwd, scanPhaseVars, sdPath, sdDryRun, sdError, validated, trashCalls,
                   mainVars, items, cleanupResult>>

PerformCleanupReturn ==
    /\ cleanupPc = "loop"
    /\ idx > Len(items)
    /\ cleanupResult' = [totalFreed |-> totalFreed,
                         results |-> results,
                         successCount |-> CountSuccess(results, 1, TRUE),
                         failCount |-> CountSuccess(results, 1, FALSE)]
    /\ cleanupPc' = "done"
    /\ UNCHANGED <<cwd, scanPhaseVars, sdVars, mainVars, items, idx, totalFreed, results>>

----------------------------------------------------------------------------
(* scanners/index.js: the registry and runAllScans *)

\* SCANNER_REGISTRY
SCANNER_REGISTRY ==
    << [key |-> "scanNodeModules", property |-> "nodeModules", isGlobal |-> FALSE],
       [key |-> "scanPython", property |-> "pythonVenvs", isGlobal |-> FALSE],
       [key |-> "scanNvm", property |-> "nvmVersions", isGlobal |-> TRUE],
       [key |-> "scanPods", property |-> "pods", isGlobal |-> FALSE],
       [key |-> "scanRust", property |-> "rustTargets", isGlobal |-> FALSE],
       [key |-> "scanGradle", property |-> "gradleBuilds", isGlobal |-> FALSE],
       [key |-> "scanCMake", property |-> "cmakeBuilds", isGlobal |-> FALSE],
       [key |-> "scanFlutter", property |-> "flutterBuilds", isGlobal |-> FALSE],
       [key |-> "scanXcode", property |-> "xcodeBuilds", isGlobal |-> FALSE],
       [key |-> "scanAiDevTools", property |-> "aiDevTools", isGlobal |-> TRUE] >>

RegistryKeys == {SCANNER_REGISTRY[i].key : i \in 1..Len(SCANNER_REGISTRY)}
Properties == {SCANNER_REGISTRY[i].property : i \in 1..Len(SCANNER_REGISTRY)}

EntryOf(property) ==
    SCANNER_REGISTRY[CHOOSE i \in 1..Len(SCANNER_REGISTRY) :
                        SCANNER_REGISTRY[i].property = property]

\* the directory name each per-root scanner looks for (one of them for the
\* scanners that look for several)
TargetName(property) ==
    CASE property = "nodeModules" -> "node_modules"
      [] property = "pythonVenvs" -> "venv"
      [] property = "pods" -> "Pods"
      [] property = "rustTargets" -> "target"
      [] property = "gradleBuilds" -> "build"
      [] property = "cmakeBuilds" -> "cmake-build-debug"
      [] property = "flutterBuilds" -> "build"
      [] property = "xcodeBuilds" -> "build"

MAX_SCAN_DEPTH == 5

\* the scanned tree: three project directories, /u/p/q inside /u/p; each holds,
\* for every per-root category, one directory that the category's scanner
\* accepts
ProjectDirs ==
    << <<Sep, "u", Sep, "p">>, <<Sep, "u", Sep, "p", Sep, "q">>, <<Sep, "u", Sep, "w">> >>

\* the scan roots as typed, all of them readable directories: one root, two
\* roots apart from each other, a root and a directory inside it, and the same
\* root twice
TypedRoots ==
    { << ProjectDirs[1] >>,
      << ProjectDirs[3] >>,
      << ProjectDirs[1], ProjectDirs[3] >>,
      << ProjectDirs[1], ProjectDirs[2] >>,
      << ProjectDirs[3], ProjectDirs[3] >> }

\* what getDirectorySize measures for the accepted directory of a project
ProjectBytes(project) ==
    CASE project = ProjectDirs[1] -> 4
      [] project = ProjectDirs[2] -> 2
      [] project = ProjectDirs[3] -> 1

\* resolveAndValidateScanPaths on resolved readable directories: the first
\* occurrence of each stays
RECURSIVE resolveAndValidateScanPaths(_, _, _)
resolveAndValidateScanPaths(rawPaths, i, kept) ==
    IF i > Len(rawPaths) THEN kept
    ELSE IF \E k \in 1..Len(kept) : kept[k] = rawPaths[i]
         THEN resolveAndValidateScanPaths(rawPaths, i + 1, kept)
         ELSE resolveAndValidateScanPaths(rawPaths, i + 1, Append(kept, rawPaths[i]))

\* walkDirectory's depth of a directory below the root of the walk (the root
\* itself has depth 0)
WalkDepth(root, dir) == (Len(dir) - Len(root)) \div 2

\* findDirectories followed by the scanner's acceptance test: the accepted
\* directories at or below basePath within maxDepth, in walk order
findDirectories(basePath, property) ==
    LET hit(i) == LET dir == ProjectDirs[i] \o <<Sep, TargetName(property)>>
                  IN /\ StartsWith(dir, basePath \o <<Sep>>)
                     /\ WalkDepth(basePath, dir) <= MAX_SCAN_DEPTH
        idxs == SelectSeq([i \in 1..Len(ProjectDirs) |-> i], hit)
    IN [k \in 1..Len(idxs) |->
          [path |-> ProjectDirs[idxs[k]] \o <<Sep, TargetName(property)>>,
           size |-> ProjectBytes(ProjectDirs[idxs[k]])]]

\* items.reduce((sum, item) => sum + item.size, 0)
RECURSIVE SumSizes(_, _)
SumSizes(its, k) == IF k > Len(its) THEN 0 ELSE its[k].size + SumSizes(its, k + 1)

\* the object every scanner's scan returns; of an item and of a result only
\* the fields runAllScans, mergeResults and main() read are kept
scanResult(its) == [items |-> its, totalSize |-> SumSizes(its, 1), count |-> Len(its)]

\* XcodeScanner: derivedDataPath
derivedDataPath ==
    HomeDir \o <<Sep, "Library", Sep, "Developer", Sep, "Xcode", Sep, "DerivedData">>

\* the states of DerivedData: missing, or holding two project directories
NoDerivedData == [exists |-> FALSE, children |-> <<>>]

DerivedDataPool ==
    { NoDerivedData,
      [exists |-> TRUE, children |-> << [name |-> "A", bytes |-> 8], [name |-> "B", bytes |-> 16] >>] }

\* XcodeScanner.scan, the condition before the await: !this.globalScanned
passesGlobalCheck(flag) == ~flag

\* XcodeScanner.scan, part 1: one item per directory entry of DerivedData
derivedDataItems(dd) ==
    [k \in 1..Len(dd.children) |->
        [path |-> derivedDataPath \o <<Sep, dd.children[k].name>>,
         size |-> dd.children[k].bytes]]

\* XcodeScanner.scan, part 2: the accepted build directories outside DerivedData
xcodeBuildItems(basePath) ==
    SelectSeq(findDirectories(basePath, "xcodeBuilds"),
              LAMBDA it : ~StartsWith(it.path, derivedDataPath))

\* the global scanners read fixed locations under home: two nvm versions, one
\* tool-data directory
globalScan(property) ==
    IF property = "nvmVersions"
    THEN scanResult(<< [path |-> HomeDir \o <<Sep, Dot, "nvm", Sep, "v18">>, size |-> 32],
                       [path |-> HomeDir \o <<Sep, Dot, "nvm", Sep, "v20">>, size |-> 64] >>)
    ELSE scanResult(<< [path |-> HomeDir \o <<Sep, Dot, "cursor">>, size |-> 128] >>)

\* faulty variant of isEnabled: a category whose flag is not set is scanned
isEnabled_DefaultOn(flags, key) == TRUE

\* if (!options[key]) ... return
isEnabled(flags, key) == flags[key]

\* the result stored for a category whose flag is not set
DisabledResult == [items |-> <<>>, totalSize |-> 0, count |-> 0]

\* the value the .catch of a root's scan resolves with
RootFailureResult == [items |-> <<>>, totalSize |-> 0, count |-> 0]

\* the result the outer catch block stores
ScannerFailureResult == [items |-> <<>>, totalSize |-> 0, count |-> 0]

\* faulty variant of rootCatch: no .catch on a root's scan, its rejection
\* rejects the Promise.all of the category
rootCatch_Rethrow(outcome, value) ==
    IF outcome = "reject" THEN [pc |-> "rejected", value |-> RootFailureResult]
    ELSE [pc |-> "fulfilled", value |-> value]

\* scanner.scan(p, scanOpts).catch(...): how the promise of one root settles
rootCatch(outcome, value) ==
    IF outcome = "reject" THEN [pc |-> "fulfilled", value |-> RootFailureResult]
    ELSE [pc |-> "fulfilled", value |-> value]

\* results.flatMap((r) => r.items || [])
RECURSIVE flatMapItems(_, _)
flatMapItems(rs, i) ==
    IF i > Len(rs) THEN <<>> ELSE rs[i].items \o flatMapItems(rs, i + 1)

\* faulty variant of mergeResults: count is the number of per-root results
mergeResults_CountsRoots(rs) ==
    LET its == flatMapItems(rs, 1)
    IN [items |-> its, totalSize |-> SumSizes(its, 1), count |-> Len(rs)]

\* mergeResults: every item.size is a number here, so `i.size || 0` is i.size
mergeResults(rs) ==
    LET its == flatMapItems(rs, 1)
    IN [items |-> its, totalSize |-> SumSizes(its, 1), count |-> Len(its)]

\* faulty variant of addTotalSize: the running total is overwritten
addTotalSize_Overwrite(total, result) == result.totalSize

\* results.totalSize += results[property].totalSize || 0
addTotalSize(total, result) == total + result.totalSize

\* results[property] = value
SetProperty(obj, property, value) ==
    [q \in (DOMAIN obj) \cup {property} |-> IF q = property THEN value ELSE obj[q]]

\* the scan(p) call of one root: its position, whether it passed the test of
\* this.globalScanned, its local items, how the scan itself ended, and the
\* value its promise (after .catch) settled with
NoRootTask == [pc |-> "none", checked |-> FALSE, items |-> <<>>, outcome |-> "pending",
               value |-> RootFailureResult]

\* runAllScans up to the first await of every callback of SCANNER_REGISTRY.map:
\* a category whose flag is not set gets its empty result and its callback
\* returns; for every other category the scanner is constructed and scan is
\* called, once for a global scanner and once per root otherwise, each call
\* running up to its first await (for XcodeScanner, past the test of
\* this.globalScanned, which the constructor has just set to false)
RunAllScansStart ==
    /\ scanPc = "called"
    /\ scanPc' = "running"
    /\ scanTotal' = 0
    /\ LET on(p) == isEnabled(scanFlags, EntryOf(p).key)
       IN /\ scanResults' = [p \in {q \in Properties : ~on(q)} |-> DisabledResult]
          /\ scanTask' = [p \in Properties |-> IF on(p) THEN "running" ELSE "returned"]
          /\ scannerRuns' = {p \in Properties : on(p)}
          /\ rootTask' =
               [p \in Properties |->
                  IF on(p) /\ ~EntryOf(p).isGlobal
                  THEN [i \in 1..Len(paths) |->
                          IF p = "xcodeBuilds" /\ passesGlobalCheck(globalScanned)
                          THEN [NoRootTask EXCEPT !.pc = "exists", !.checked = TRUE]
                          ELSE [NoRootTask EXCEPT !.pc = "walk"]]
                  ELSE <<>>]
    /\ UNCHANGED <<cwd, sdVars, cleanupVars, mainVars, walkVars, sizeVars, metaVars,
                   scanFlags, paths, derivedData, globalScanned, ddReads>>

\* XcodeScanner.scan of root i after `await pathExists(derivedDataPath)`: when
\* DerivedData exists the flag is set and its entries become items
XcodeDerivedData(i) ==
    /\ scanPc = "running"
    /\ i \in 1..Len(rootTask["xcodeBuilds"])
    /\ rootTask["xcodeBuilds"][i].pc = "exists"
    /\ IF derivedData.exists
       THEN /\ globalScanned' = TRUE
            /\ ddReads' = ddReads + 1
            /\ rootTask' = [rootTask EXCEPT !["xcodeBuilds"][i].pc = "walk",
                                            !["xcodeBuilds"][i].items = derivedDataItems(derivedData)]
       ELSE /\ rootTask' = [rootTask EXCEPT !["xcodeBuilds"][i].pc = "walk"]
            /\ UNCHANGED <<globalScanned, ddReads>>
    /\ UNCHANGED <<cwd, sdVars, cleanupVars, mainVars, walkVars, sizeVars, metaVars,
                   scanFlags, paths, derivedData, scanPc, scanResults, scanTotal,
                   scanTask, scannerRuns>>

\* the scan of root i of a per-root category settles: the walk throws, or the
\* scan resolves with its items
RootScanSettle(p, i) ==
    /\ scanPc = "running"
    /\ i \in 1..Len(rootTask[p])
    /\ rootTask[p][i].pc = "walk"
    /\ \E outcome \in {"resolve", "reject"} :
        LET found == IF p = "xcodeBuilds" THEN xcodeBuildItems(paths[i])
                     ELSE findDirectories(paths[i], p)
            settled == rootCatch(outcome, scanResult(rootTask[p][i].items \o found))
        IN rootTask' = [rootTask EXCEPT ![p][i].pc = settled.pc,
                                        ![p][i].outcome = outcome,
                                        ![p][i].value = settled.value]
    /\ UNCHANGED <<cwd, sdVars, cleanupVars, mainVars, walkVars, sizeVars, metaVars,
                   scanFlags, paths, derivedData, scanPc, scanResults, scanTotal,
                   scanTask, globalScanned, ddReads, scannerRuns>>

\* the Promise.all over the roots of a per-root category settles: merge and
\* add to the total, or the catch block when a root's promise rejected
CategoryMerge(p) ==
    /\ scanPc = "running"
    /\ scanTask[p] = "running"
    /\ ~EntryOf(p).isGlobal
    /\ LET rejected == \E i \in 1..Len(rootTask[p]) : rootTask[p][i].pc = "rejected"
           fulfilled == \A i \in 1..Len(rootTask[p]) : rootTask[p][i].pc = "fulfilled"
           merged == mergeResults([i \in 1..Len(rootTask[p]) |-> rootTask[p][i].value])
       IN /\ rejected \/ fulfilled
          /\ IF rejected
             THEN /\ scanResults' = SetProperty(scanResults, p, ScannerFailureResult)
                  /\ scanTotal' = scanTotal
             ELSE /\ scanResults' = SetProperty(scanResults, p, merged)
                  /\ scanTotal' = addTotalSize(scanTotal, merged)
          /\ scanTask' = [scanTask EXCEPT ![p] = IF rejected THEN "caught" ELSE "returned"]
    /\ UNCHANGED <<cwd, sdVars, cleanupVars, mainVars, walkVars, sizeVars, metaVars,
                   scanFlags, paths, derivedData, scanPc, rootTask, globalScanned,
                   ddReads, scannerRuns>>

\* the scan of a global category settles: its result is stored and added to
\* the total, or the catch block stores the empty result
GlobalSettle(p) ==
    /\ scanPc = "running"
    /\ scanTask[p] = "running"
    /\ EntryOf(p).isGlobal
    /\ \E outcome \in {"resolve", "reject"} :
        IF outcome = "resolve"
        THEN /\ scanResults' = SetProperty(scanResults, p, globalScan(p))
             /\ scanTotal' = addTotalSize(scanTotal, globalScan(p))
             /\ scanTask' = [scanTask EXCEPT ![p] = "returned"]
        ELSE /\ scanResults' = SetProperty(scanResults, p, ScannerFailureResult)
             /\ scanTotal' = scanTotal
             /\ scanTask' = [scanTask EXCEPT ![p] = "caught"]
    /\ UNCHANGED <<cwd, sdVars, cleanupVars, mainVars, walkVars, sizeVars, metaVars,
                   scanFlags, paths, derivedData, scanPc, rootTask, globalScanned,
                   ddReads, scannerRuns>>

\* the outer Promise.all resolves: return results
RunAllScansResolve ==
    /\ scanPc = "running"
    /\ \A p \in Properties : scanTask[p] \in {"returned", "caught"}
    /\ scanPc' = "resolved"
    /\ UNCHANGED <<cwd, sdVars, cleanupVars, mainVars, walkVars, sizeVars, metaVars,
                   scanFlags, paths, derivedData, scanResults, scanTotal, scanTask,
                   rootTask, globalScanned, ddReads, scannerRuns>>

NoFlags == [k \in RegistryKeys |-> FALSE]

ScanIdle ==
    /\ scanFlags = NoFlags
    /\ paths = <<>>
    /\ derivedData = NoDerivedData
    /\ scanPc = "idle"
    /\ scanResults = [p \in {} |-> DisabledResult]
    /\ scanTotal = 0
    /\ scanTask = [p \in Properties |-> "idle"]
    /\ rootTask = [p \in Properties |-> <<>>]
    /\ globalScanned = FALSE
    /\ ddReads = 0
    /\ scannerRuns = {}

----------------------------------------------------------------------------
(* utils/fileSize.js: getDirectorySize and its cache *)

\* the resolved directories whose size the process asks for
SizePaths == { <<Sep, "u", Sep, "p", Sep, "node_modules">>,
               <<Sep, "u", Sep, "w", Sep, "build">> }

NoRequest == [pc |-> "idle", path |-> <<>>, useCache |-> TRUE, value |-> 0,
              beforeClear |-> FALSE]

\* the first free request slot
FirstIdle(r) ==
    /\ sizeReq[r].pc = "idle"
    /\ \A q \in 1..(r - 1) : sizeReq[q].pc # "idle"

\* getDirectorySize(dirPath, { useCache }) up to its first await: a cached size
\* is returned at once, otherwise the walk of the resolved path begins
GetDirectorySizeCall(r, resolved, useCache) ==
    /\ FirstIdle(r)
    /\ IF useCache /\ resolved \in DOMAIN sizeCache
       THEN /\ sizeReq' = [sizeReq EXCEPT ![r] = [NoRequest EXCEPT !.pc = "resolved",
                                                                   !.path = resolved,
                                                                   !.useCache = useCache,
                                                                   !.value = sizeCache[resolved]]]
            /\ walks' = walks
       ELSE /\ sizeReq' = [sizeReq EXCEPT ![r] = [NoRequest EXCEPT !.pc = "walking",
                                                                   !.path = resolved,
                                                                   !.useCache = useCache]]
            /\ walks' = IF useCache THEN [walks EXCEPT ![resolved] = @ + 1] ELSE walks
    /\ UNCHANGED <<cwd, sdVars, cleanupVars, mainVars, walkVars, scanVars, metaVars,
                   sizeCache, diskBytes>>

\* the walk of a request ends: lstat or readdir threw an error other than
\* EACCES and ENOENT and the call rejects, or the total is cached (when
\* useCache) and returned
GetDirectorySizeSettle(r) ==
    /\ sizeReq[r].pc = "walking"
    /\ \E outcome \in {"done", "throw"} :
        IF outcome = "throw"
        THEN /\ sizeReq' = [sizeReq EXCEPT ![r].pc = "rejected"]
             /\ sizeCache' = sizeCache
        ELSE LET totalSize == diskBytes[sizeReq[r].path]
             IN /\ sizeReq' = [sizeReq EXCEPT ![r].pc = "resolved", ![r].value = totalSize]
                /\ sizeCache' = IF sizeReq[r].useCache
                                THEN SetProperty(sizeCache, sizeReq[r].path, totalSize)
                                ELSE sizeCache
    /\ UNCHANGED <<cwd, sdVars, cleanupVars, mainVars, walkVars, scanVars, metaVars,
                   walks, diskBytes>>

\* clearSizeCache
ClearSizeCache ==
    /\ DOMAIN sizeCache # {}
    /\ sizeCache' = [p \in {} |-> 0]
    /\ walks' = [p \in SizePaths |-> 0]
    /\ sizeReq' = [r \in DOMAIN sizeReq |->
                     IF sizeReq[r].pc = "idle" THEN sizeReq[r]
                     ELSE [sizeReq[r] EXCEPT !.beforeClear = TRUE]]
    /\ UNCHANGED <<cwd, sdVars, cleanupVars, mainVars, walkVars, scanVars, metaVars, diskBytes>>

\* another process writes into a measured directory
DiskChange(p) ==
    /\ diskBytes[p] = 1
    /\ diskBytes' = [diskBytes EXCEPT ![p] = 2]
    /\ UNCHANGED <<cwd, sdVars, cleanupVars, mainVars, walkVars, scanVars, metaVars,
                   sizeCache, sizeReq, walks>>

SizeIdle ==
    /\ sizeCache = [p \in {} |-> 0]
    /\ sizeReq = <<>>
    /\ walks = [p \in SizePaths |-> 0]
    /\ diskBytes = [p \in SizePaths |-> 1]

----------------------------------------------------------------------------
(* scanners/baseScanner.js: getMetadata *)

\* 24 * 60 * 60 * 1000
DayMs == 24 * 60 * 60 * 1000

\* getLastModified resolved with null
NullDate == -1

\* the instants, in milliseconds, the clock and an mtime are taken from: half
\* a day apart
TimePool == {k * (DayMs \div 2) : k \in 0..MaxHalfDays}

\* getMetadata after `await getLastModified(dirPath)`; Math.floor of a
\* quotient by a positive number is \div
getMetadata(now, mt) ==
    IF mt = NullDate
    THEN [lastModified |-> NullDate, lastModifiedDays |-> LmdInfinity]
    ELSE [lastModified |-> mt, lastModifiedDays |-> (now - mt) \div DayMs]

NoMetadata == [lastModified |-> NullDate, lastModifiedDays |-> 0]

GetMetadata ==
    /\ metaPc = "called"
    /\ metadata' = getMetadata(clock, mtime)
    /\ metaPc' = "resolved"
    /\ UNCHANGED <<cwd, sdVars, cleanupVars, mainVars, walkVars, scanVars, sizeVars, clock, mtime>>

MetaIdle ==
    /\ clock = 0
    /\ mtime = NullDate
    /\ metaPc = "idle"
    /\ metadata = NoMetadata

----------------------------------------------------------------------------
(* utils/fileSystem.js: walkDirectory, on a file system given as a tree *)

\* String.prototype.endsWith
EndsWith(s, suffix) ==
    /\ Len(s) >= Len(suffix)
    /\ SubSeq(s, Len(s) - Len(suffix) + 1, Len(s)) = suffix

\* String.prototype.includes
Includes(s, sub) ==
    \E i \in 0..(Len(s) - Len(sub)) : SubSeq(s, i + 1, i + Len(sub)) = sub

\* path.basename of an absolute normalised path
Basename(p) == LET segs == Split(p) IN segs[Len(segs)]

\* path.dirname of an absolute normalised path
Dirname(p) == LET segs == NormalizeSegs(Split(p), 1, <<>>)
              IN AbsOf(SubSeq(segs, 1, Len(segs) - 1))

\* constants.IGNORE_DIRS
IGNORE_DIRS ==
    << <<Dot, "Trash">>, <<"Library">>, <<"System">>, <<Dot, "git">>, <<Dot, "cache">>,
       <<"node_modules", Sep, "node_modules">> >>

\* the file system a list of nodes describes: a node is a directory, a file
\* with its size, a symbolic link with its target, or something else (a
\* socket); readdir lists the children of a directory in the order of the list
DiskOf(nodes) ==
    LET pathOf(k) == AbsOf(nodes[k].segs)
        childIdx(k) == SelectSeq([j \in 1..Len(nodes) |-> j],
                                 LAMBDA j : /\ Len(nodes[j].segs) = Len(nodes[k].segs) + 1
                                            /\ SubSeq(nodes[j].segs, 1, Len(nodes[k].segs))
                                                 = nodes[k].segs)
        nodeAt(k) == [kind |-> nodes[k].kind,
                      entries |-> [c \in 1..Len(childIdx(k)) |->
                                      LET cs == nodes[childIdx(k)[c]].segs IN cs[Len(cs)]],
                      target |-> AbsOf(nodes[k].target),
                      size |-> nodes[k].size]
    IN [p \in {pathOf(k) : k \in 1..Len(nodes)} |->
          nodeAt(CHOOSE k \in 1..Len(nodes) : pathOf(k) = p)]

\* no call fails
NoFault == [path |-> <<>>, op |-> "none", code |-> "none"]

\* the path the kernel reaches for a path string: a symbolic link in any
\* component but the last is followed
RECURSIVE RealPath(_, _, _, _)
RealPath(d, segs, i, cur) ==
    IF i > Len(segs) THEN (IF Len(cur) = 0 THEN RootStr ELSE cur)
    ELSE LET next == cur \o <<Sep>> \o segs[i]
         IN IF i < Len(segs) /\ next \in DOMAIN d /\ d[next].kind = "symlink"
            THEN RealPath(d, segs, i + 1, d[next].target)
            ELSE RealPath(d, segs, i + 1, next)

\* faulty variant of lstat: fs.stat, which follows a symbolic link in the last
\* component too
lstat_Follows(d, f, p) ==
    LET real == RealPath(d, NormalizeSegs(Split(p), 1, <<>>), 1, <<>>)
        node == IF real \in DOMAIN d /\ d[real].kind = "symlink" THEN d[real].target ELSE real
    IN IF f.op = "lstat" /\ f.path = p THEN [err |-> f.code, kind |-> "none", size |-> 0]
       ELSE IF node \notin DOMAIN d THEN [err |-> "ENOENT", kind |-> "none", size |-> 0]
       ELSE [err |-> "none", kind |-> d[node].kind, size |-> d[node].size]

\* await fs.lstat(currentPath): the error code it throws with, or the kind and
\* size of the node itself
lstat(d, f, p) ==
    LET real == RealPath(d, NormalizeSegs(Split(p), 1, <<>>), 1, <<>>)
    IN IF f.op = "lstat" /\ f.path = p THEN [err |-> f.code, kind |-> "none", size |-> 0]
       ELSE IF real \notin DOMAIN d THEN [err |-> "ENOENT", kind |-> "none", size |-> 0]
       ELSE [err |-> "none", kind |-> d[real].kind, size |-> d[real].size]

\* await fs.readdir(currentPath): the error code it throws with, or the names
\* in the directory (of the directory a symbolic link leads to)
readdir(d, f, p) ==
    LET real == RealPath(d, NormalizeSegs(Split(p), 1, <<>>), 1, <<>>)
        node == IF real \in DOMAIN d /\ d[real].kind = "symlink" THEN d[real].target ELSE real
    IN IF f.op = "readdir" /\ f.path = p THEN [err |-> f.code, entries |-> <<>>]
       ELSE IF node \notin DOMAIN d THEN [err |-> "ENOENT", entries |-> <<>>]
       ELSE IF d[node].kind # "dir" THEN [err |-> "ENOTDIR", entries |-> <<>>]
       ELSE [err |-> "none", entries |-> d[node].entries]

\* faulty variant of isTransient: a missing path is not tolerated
isTransient_OnlyEacces(code) == code = "EACCES"

\* err.code === 'EACCES' || err.code === 'ENOENT'
isTransient(code) == code = "EACCES" \/ code = "ENOENT"

\* faulty variant of tooDeep: one level more is walked
tooDeep_OffByOne(depth, max) == depth > max + 1

\* if (depth > maxDepth) return
tooDeep(depth, max) == depth > max

\* ignoreDirs.some((ignore) => basename === ignore || currentPath.endsWith(ignore))
isIgnored(ignoreDirs, currentPath) ==
    \E k \in 1..Len(ignoreDirs) :
        Basename(currentPath) = ignoreDirs[k] \/ EndsWith(currentPath, ignoreDirs[k])

\* faulty variant of skipsDescent: a match is descended into
skipsDescent_Never(skipDescendingInto, basename) == FALSE

\* skipDescendingInto.includes(basename)
skipsDescent(skipDescendingInto, basename) ==
    \E k \in 1..Len(skipDescendingInto) : skipDescendingInto[k] = basename

\* one call walk(currentPath, depth) up to its loop over the entries: whether
\* lstat and readdir were called and the callback invoked (and whether with the
\* stats of a directory), the calls the loop goes on to make, and the code of
\* the error the call throws with
walk(d, f, opts, frame) ==
    LET currentPath == frame.path
        none == [stat |-> FALSE, visit |-> FALSE, isDirectory |-> FALSE, list |-> FALSE,
                 calls |-> <<>>, err |-> "none"]
        dir == [none EXCEPT !.visit = TRUE, !.isDirectory = TRUE]
        stats == lstat(d, f, currentPath)
        entries == readdir(d, f, currentPath)
        returns(r) == [r EXCEPT !.stat = TRUE]
        throws(r, code) == IF isTransient(code) THEN r ELSE [r EXCEPT !.err = code]
    IN IF tooDeep(frame.depth, opts.maxDepth) THEN none
       ELSE IF stats.err # "none" THEN throws(returns(none), stats.err)
       ELSE IF stats.kind = "symlink" THEN returns(none)
       ELSE IF stats.kind = "file" THEN returns([none EXCEPT !.visit = TRUE])
       ELSE IF stats.kind # "dir" THEN returns(none)
       ELSE IF isIgnored(opts.ignoreDirs, currentPath) THEN returns(none)
       ELSE IF skipsDescent(opts.skipDescendingInto, Basename(currentPath))
            THEN returns(dir)
       ELSE IF entries.err # "none"
            THEN throws(returns([dir EXCEPT !.list = TRUE]), entries.err)
       ELSE returns([dir EXCEPT
                       !.list = TRUE,
                       !.calls = [k \in 1..Len(entries.entries) |->
                                    [path |-> PathJoin(currentPath, entries.entries[k]),
                                     depth |-> frame.depth + 1]]])

----------------------------------------------------------------------------
(* scanners: scan(basePath) of the scanners that walk a root *)

\* the scanners whose scan is a walk followed by an acceptance test
ScanKinds ==
    {"nodeModules", "pods", "rustTargets", "gradleBuilds", "cmakeBuilds", "flutterBuilds"}

\* the names scan passes to findDirectories, in the order of its calls
TargetNames(kind) ==
    CASE kind = "nodeModules" -> << <<"node_modules">> >>
      [] kind = "pods" -> << <<"Pods">> >>
      [] kind = "rustTargets" -> << <<"target">> >>
      [] kind = "gradleBuilds" -> << <<"build">>, <<Dot, "gradle">> >>
      [] kind = "cmakeBuilds" -> << <<"cmake-build-debug">> >>
      [] kind = "flutterBuilds" -> << <<"build">>, <<Dot, "dart_tool">> >>

\* the file names scan looks for in the parent directory of a candidate
Manifests(kind) ==
    CASE kind = "rustTargets" -> { <<"Cargo", Dot, "toml">> }
      [] kind = "gradleBuilds" -> { <<"build", Dot, "gradle">>,
                                    <<"build", Dot, "gradle", Dot, "kts">>,
                                    <<"settings", Dot, "gradle">> }
      [] kind = "cmakeBuilds" -> { <<"CMakeLists", Dot, "txt">> }
      [] kind = "flutterBuilds" -> { <<"pubspec", Dot, "yaml">> }
      [] OTHER -> {}

\* pathExists: fs.access succeeds (it follows a symbolic link)
pathExists(d, p) ==
    /\ p \in DOMAIN d
    /\ d[p].kind = "symlink" => d[p].target \in DOMAIN d

\* faulty variant of hasManifest: every candidate passes
hasManifest_Always(d, kind, parentDir) == TRUE

\* the test `await pathExists(path.join(parentDir, <manifest>))` of the
\* ecosystem-gated scanners
hasManifest(d, kind, parentDir) ==
    \E m \in Manifests(kind) : pathExists(d, PathJoin(parentDir, m))

\* faulty variant of isTopLevelNodeModules: a substring test
isTopLevelNodeModules_Substring(dir) == ~Includes(Dirname(dir), <<"node_modules">>)

\* NodeModulesScanner: !parentDir.split(path.sep).includes('node_modules')
isTopLevelNodeModules(dir) ==
    LET segs == Split(Dirname(dir))
    IN ~\E k \in 1..Len(segs) : segs[k] = <<"node_modules">>

\* PodsScanner: the filter over podsDirs
isTopLevelPods(dir) ==
    LET suffix == <<Sep, "Pods">>
        withoutName == SubSeq(dir, 1, Len(dir) - Len(suffix))
    IN IF ~EndsWith(dir, suffix) THEN TRUE
       ELSE ~Includes(withoutName, <<"Pods">>)

\* the acceptance test of each scanner
accepts(d, kind, dir) ==
    CASE kind = "nodeModules" -> isTopLevelNodeModules(dir)
      [] kind = "pods" -> isTopLevelPods(dir)
      [] OTHER -> hasManifest(d, kind, Dirname(dir))

\* getDirectorySize: the calls walk(currentPath) still to make, next first,
\* and totalSize; the result is the code of the error the walk throws with,
\* or the total
RECURSIVE sizeWalk(_, _, _, _)
sizeWalk(d, f, todo, totalSize) ==
    IF Len(todo) = 0 THEN [err |-> "none", totalSize |-> totalSize]
    ELSE LET currentPath == Head(todo)
             stats == lstat(d, f, currentPath)
             entries == readdir(d, f, currentPath)
         IN IF stats.err # "none"
            THEN (IF isTransient(stats.err) THEN sizeWalk(d, f, Tail(todo), totalSize)
                  ELSE [err |-> stats.err, totalSize |-> totalSize])
            ELSE IF stats.kind = "symlink" THEN sizeWalk(d, f, Tail(todo), totalSize)
            ELSE IF stats.kind = "file"
                 THEN sizeWalk(d, f, Tail(todo), totalSize + stats.size)
            ELSE IF stats.kind # "dir" THEN sizeWalk(d, f, Tail(todo), totalSize)
            ELSE IF entries.err # "none"
                 THEN (IF isTransient(entries.err) THEN sizeWalk(d, f, Tail(todo), totalSize)
                       ELSE [err |-> entries.err, totalSize |-> totalSize])
            ELSE sizeWalk(d, f,
                          [k \in 1..Len(entries.entries) |->
                              PathJoin(currentPath, entries.entries[k])] \o Tail(todo),
                          totalSize)

\* BaseScanner.calculateSize: whatever getDirectorySize throws is caught
calculateSize(d, f, dirPath) ==
    LET measured == sizeWalk(d, f, <<dirPath>>, 0)
    IN IF measured.err # "none" THEN 0 ELSE measured.totalSize

\* the options findDirectories passes to walkDirectory
WalkOpts ==
    [maxDepth |-> maxDepth, ignoreDirs |-> IGNORE_DIRS,
     skipDescendingInto |-> << TargetNames(scanKind)[targetIdx] >>]

\* scan calls findDirectories, which calls walkDirectory: walk(dirPath, 0) is
\* the first call to make
FindDirectoriesCall ==
    /\ scannerPc = "find"
    /\ scannerPc' = "await"
    /\ walkPc' = "walking"
    /\ walkTodo' = << [path |-> scanRoot, depth |-> 0] >>
    /\ visited' = <<>>
    /\ statted' = {}
    /\ listed' = {}
    /\ UNCHANGED <<cwd, sdVars, cleanupVars, mainVars, scanVars, sizeVars, metaVars,
                   disk, fault, scanKind, scanRoot, maxDepth, targetIdx, foundDirs, scanOut>>

\* the next call of walk runs: its own calls come before the ones pending; an
\* error that is not tolerated rejects walkDirectory, and walkDirectory
\* resolves when no call is left
WalkStep ==
    /\ walkPc = "walking"
    /\ LET currentPath == Head(walkTodo).path
           ran == walk(disk, fault, WalkOpts, Head(walkTodo))
           todo == ran.calls \o Tail(walkTodo)
       IN /\ statted' = IF ran.stat THEN statted \cup {currentPath} ELSE statted
          /\ listed' = IF ran.list THEN listed \cup {currentPath} ELSE listed
          /\ visited' = IF ran.visit
                        THEN Append(visited, [path |-> currentPath,
                                              isDirectory |-> ran.isDirectory])
                        ELSE visited
          /\ walkTodo' = todo
          /\ walkPc' = IF ran.err # "none" THEN "rejected"
                       ELSE IF Len(todo) = 0 THEN "resolved"
                       ELSE "walking"
    /\ UNCHANGED <<cwd, sdVars, cleanupVars, mainVars, scanVars, sizeVars, metaVars,
                   disk, fault, scanKind, scanRoot, maxDepth, targetIdx, foundDirs,
                   scannerPc, scanOut>>

\* findDirectories returns what its callback collected: the visited
\* directories whose base name is the target name; scan goes on to its next
\* findDirectories call or to its candidates
FindDirectoriesReturn ==
    /\ scannerPc = "await"
    /\ walkPc = "resolved"
    /\ LET targetName == TargetNames(scanKind)[targetIdx]
           matches == SelectSeq(visited, LAMBDA v : v.isDirectory /\ Basename(v.path) = targetName)
       IN foundDirs' = foundDirs \o [k \in 1..Len(matches) |-> matches[k].path]
    /\ IF targetIdx < Len(TargetNames(scanKind))
       THEN targetIdx' = targetIdx + 1 /\ scannerPc' = "find"
       ELSE targetIdx' = targetIdx /\ scannerPc' = "items"
    /\ UNCHANGED <<cwd, sdVars, cleanupVars, mainVars, scanVars, sizeVars, metaVars,
                   disk, fault, scanKind, scanRoot, maxDepth, scanOut,
                   walkPc, walkTodo, visited, statted, listed>>

\* scan settles, and with it the promise runAllScans holds for this root: a
\* rejected walk rejects scan; otherwise the accepted candidates (each once for
\* the scanners that collect them in a Set) become items with their size
ScanSettle ==
    /\ \/ scannerPc = "await" /\ walkPc = "rejected"
       \/ scannerPc = "items"
    /\ LET uniqueDirs == resolveAndValidateScanPaths(foundDirs, 1, <<>>)
           accepted == SelectSeq(uniqueDirs, LAMBDA dir : accepts(disk, scanKind, dir))
           its == [k \in 1..Len(accepted) |->
                      [path |-> accepted[k], size |-> calculateSize(disk, fault, accepted[k])]]
       IN IF scannerPc = "items"
          THEN /\ scannerPc' = "resolved"
               /\ scanOut' = rootCatch("resolve", scanResult(its))
          ELSE /\ scannerPc' = "rejected"
               /\ scanOut' = rootCatch("reject", RootFailureResult)
    /\ UNCHANGED <<cwd, sdVars, cleanupVars, mainVars, scanVars, sizeVars, metaVars,
                   disk, fault, scanKind, scanRoot, maxDepth, targetIdx, foundDirs,
                   walkPc, walkTodo, visited, statted, listed>>

WalkIdle ==
    /\ disk = [p \in {} |-> 0]
    /\ fault = NoFault
    /\ scanKind = "none"
    /\ scanRoot = <<>>
    /\ maxDepth = MAX_SCAN_DEPTH
    /\ targetIdx = 1
    /\ foundDirs = <<>>
    /\ scannerPc = "idle"
    /\ scanOut = [pc |-> "pending", value |-> RootFailureResult]
    /\ walkPc = "idle"
    /\ walkTodo = <<>>
    /\ visited = <<>>
    /\ statted = {}
    /\ listed = {}

----------------------------------------------------------------------------
(* The parts of the state a run does not use *)

NoOptions == [dryRun |-> FALSE, yes |-> FALSE, interactive |-> TRUE, onlyAiDevTools |-> FALSE]
NoScan == [hasAnything |-> FALSE, hasDeletable |-> FALSE]
NoResult == [totalFreed |-> 0, results |-> <<>>, successCount |-> 0, failCount |-> 0]

MainIdle ==
    /\ options = NoOptions
    /\ scanFound = NoScan
    /\ mainPc = "none"
    /\ exitCode = -1
    /\ selections = <<>>
    /\ history = <<>>
    /\ confirmAnswer = "none"

CleanupIdle ==
    /\ cleanupPc = "idle"
    /\ items = <<>>
    /\ idx = 0
    /\ totalFreed = 0
    /\ results = <<>>
    /\ cleanupResult = NoResult

----------------------------------------------------------------------------
(* utils/history.js *)

HistoryCap == 50

\* logCleanup: push the entry, keep the last 50, write the file (a failing
\* write is swallowed and leaves the file as it was)
logCleanup(hist, stats, writeOk) ==
    LET pushed == Append(hist, [freedBytes |-> stats.freedBytes,
                                itemsDeleted |-> stats.itemsDeleted])
        kept == IF Len(pushed) > HistoryCap THEN Tail(pushed) ELSE pushed
    IN IF writeOk THEN kept ELSE hist

----------------------------------------------------------------------------
(* bin/cli.js: main() from the end of the scan *)

EXIT_SUCCESS == 0
EXIT_ERROR == 1
EXIT_CANCELLED == 130

\* the scanned items the prompt's choices are built from: a directory under
\* home reported twice with different metadata, a directory inside a protected
\* directory, and a directory of a scan root outside home (--path)
ItemPool ==
    { [path |-> <<Sep, "u", Sep, "x">>, size |-> 4, lastModifiedDays |-> 10],
      [path |-> <<Sep, "u", Sep, "x">>, size |-> NoSize, lastModifiedDays |-> LmdInfinity],
      [path |-> <<Sep, "u", Sep, "Desktop", Sep, "x">>, size |-> 1, lastModifiedDays |-> 200],
      [path |-> <<Sep, "x", Sep, "x">>, size |-> 16, lastModifiedDays |-> 0] }

\* the ways of cutting a list of n items into k consecutive groups
Cuts(n, k) ==
    {c \in [1..k -> 0..n] : c[k] = n /\ \A i \in 1..(k - 1) : c[i] <= c[i + 1]}

Group(f, c, i) == SubSeq(f, (IF i = 1 THEN 0 ELSE c[i - 1]) + 1, c[i])

\* every list of at most MaxSels selections holding at most MaxItems items in
\* all; a selection may lack its items field when it holds none
AllSelections ==
    {<<>>} \cup
    UNION { UNION { { [i \in 1..k |-> [hasItems |-> h[i], items |-> Group(f, c, i)]] :
                        h \in {hh \in [1..k -> BOOLEAN] :
                                 \A i \in 1..k : ~hh[i] => Group(f, c, i) = <<>>} } :
                    c \in Cuts(Len(f), k) } :
            f \in SeqsUpTo(ItemPool, MaxItems), k \in 1..MaxSels }

OldEntry == [freedBytes |-> 1, itemsDeleted |-> 1]

\* the scanners report absolute paths, so the working directory of a CLI run
\* has no part in resolving them
InitMain ==
    /\ cwd = HomeDir
    /\ options \in [dryRun : BOOLEAN, yes : BOOLEAN, interactive : BOOLEAN,
                    onlyAiDevTools : BOOLEAN]
    /\ scanFound \in {f \in [hasAnything : BOOLEAN, hasDeletable : BOOLEAN] :
                        /\ f.hasDeletable => f.hasAnything
                        /\ options.onlyAiDevTools => ~f.hasDeletable}
    /\ history \in {<<>>, [i \in 1..HistoryCap |-> OldEntry]}
    /\ mainPc = "scanned"
    /\ exitCode = -1
    /\ selections = <<>>
    /\ confirmAnswer = "none"
    /\ ScanIdle
    /\ SizeIdle
    /\ MetaIdle
    /\ WalkIdle
    /\ sdPath = <<>>
    /\ sdDryRun = FALSE
    /\ sdPc = "idle"
    /\ sdError = NoError
    /\ validated = {}
    /\ trashCalls = <<>>
    /\ CleanupIdle

Exit(code) ==
    /\ mainPc' = "exited"
    /\ exitCode' = code

\* from the scan's result to the cleanup prompt
MainAfterScan ==
    /\ mainPc = "scanned"
    /\ IF ~scanFound.hasAnything THEN Exit(EXIT_SUCCESS)
       ELSE IF ~scanFound.hasDeletable /\ options.onlyAiDevTools THEN Exit(EXIT_SUCCESS)
       ELSE IF ~options.interactive THEN Exit(EXIT_SUCCESS)
       ELSE mainPc' = "prompt" /\ exitCode' = exitCode
    /\ UNCHANGED <<cwd, scanPhaseVars, sdVars, cleanupVars, options, scanFound, selections, history,
                   confirmAnswer>>

\* await promptForCleanup(scanResults): the prompt throws (cancelled or any
\* other error), or returns the checked choices (none when Skip is checked)
MainPrompt ==
    /\ mainPc = "prompt"
    /\ \E answer \in {"cancel", "error", "answered"} :
        IF answer = "cancel" THEN Exit(EXIT_CANCELLED) /\ selections' = selections
        ELSE IF answer = "error" THEN Exit(EXIT_ERROR) /\ selections' = selections
        ELSE \E sels \in (IF scanFound.hasDeletable THEN AllSelections ELSE {<<>>}) :
                /\ selections' = sels
                /\ IF Len(sels) = 0 THEN Exit(EXIT_SUCCESS)
                   ELSE mainPc' = "confirm" /\ exitCode' = exitCode
    /\ UNCHANGED <<cwd, scanPhaseVars, sdVars, cleanupVars, options, scanFound, history,
                   confirmAnswer>>

\* faulty variant of isConfirmed: a declined confirmation counts as given
isConfirmed_DeclineProceeds(yes, answer) == TRUE

\* confirmed = options.yes === true || (await confirmCleanup(selections));
\* answer is "none" when confirmCleanup was not called
isConfirmed(yes, answer) == yes \/ answer = "yes"

\* the confirmation: --yes skips the question; otherwise confirmCleanup throws
\* (cancelled or any other error) or returns the user's answer
MainConfirm ==
    /\ mainPc = "confirm"
    /\ \E answer \in (IF options.yes THEN {"none"} ELSE {"cancel", "error", "yes", "no"}) :
        /\ confirmAnswer' = answer
        /\ IF answer = "cancel" THEN Exit(EXIT_CANCELLED)
           ELSE IF answer = "error" THEN Exit(EXIT_ERROR)
           ELSE IF ~isConfirmed(options.yes, answer) THEN Exit(EXIT_SUCCESS)
           ELSE mainPc' = "cleanup" /\ exitCode' = exitCode
    /\ UNCHANGED <<cwd, scanPhaseVars, sdVars, cleanupVars, options, scanFound, selections, history>>

\* faulty variant of shouldLog: dryRun is not looked at
shouldLog_IgnoresDryRun(result, dryRun) == result.successCount > 0

\* whether main() records the run in the history
shouldLog(result, dryRun) == result.successCount > 0 /\ ~dryRun

\* performCleanup resolved: summary, history, exit
MainFinish ==
    /\ mainPc = "cleanup"
    /\ cleanupPc = "done"
    /\ IF shouldLog(cleanupResult, options.dryRun)
       THEN \E writeOk \in BOOLEAN :
               history' = logCleanup(history,
                                     [freedBytes |-> cleanupResult.totalFreed,
                                      itemsDeleted |-> cleanupResult.successCount],
                                     writeOk)
       ELSE history' = history
    /\ Exit(EXIT_SUCCESS)
    /\ UNCHANGED <<cwd, scanPhaseVars, sdVars, cleanupVars, options, scanFound, selections,
                   confirmAnswer>>

Init == InitMain

Next ==
    \/ MainAfterScan
    \/ MainPrompt
    \/ MainConfirm
    \/ PerformCleanupStart
    \/ PerformCleanupDryItem
    \/ PerformCleanupDelete
    \/ SafeDeleteTrash
    \/ PerformCleanupSettle
    \/ PerformCleanupReturn
    \/ MainFinish

Spec == Init /\ [][Next]_vars

----------------------------------------------------------------------------
(* Specification of a direct call safeDelete(dirPath, { dryRun, trashFn }) *)

InitSafeDelete ==
    /\ cwd \in CwdPool
    /\ sdPath \in InputPaths
    /\ sdDryRun \in BOOLEAN
    /\ sdPc = "called"
    /\ sdError = NoError
    /\ validated = {}
    /\ trashCalls = <<>>
    /\ CleanupIdle
    /\ MainIdle
    /\ ScanIdle
    /\ SizeIdle
    /\ MetaIdle
    /\ WalkIdle

SafeDeleteDirect ==
    /\ sdPc = "called"
    /\ SafeDeleteCall(sdPath, sdDryRun)
    /\ UNCHANGED <<cwd, scanPhaseVars, cleanupVars, mainVars>>

NextSafeDelete == SafeDeleteDirect \/ SafeDeleteTrash

SpecSafeDelete == InitSafeDelete /\ [][NextSafeDelete]_vars

\* both ways into safeDelete: a direct call, and main() through performCleanup
InitAll == InitSafeDelete \/ InitMain

NextAll == SafeDeleteDirect \/ Next

SpecAll == InitAll /\ [][NextAll]_vars

----------------------------------------------------------------------------
(* Specification of one call runAllScans(paths, options) *)

SafeDeleteIdle ==
    /\ sdPath = <<>>
    /\ sdDryRun = FALSE
    /\ sdPc = "idle"
    /\ sdError = NoError
    /\ validated = {}
    /\ trashCalls = <<>>

\* at most MaxEnabled flags set
InitScan ==
    /\ scanFlags \in {f \in [RegistryKeys -> BOOLEAN] :
                         Cardinality({k \in RegistryKeys : f[k]}) <= MaxEnabled}
    /\ paths \in {resolveAndValidateScanPaths(raw, 1, <<>>) : raw \in TypedRoots}
    /\ derivedData \in (IF scanFlags["scanXcode"] THEN DerivedDataPool ELSE {NoDerivedData})
    /\ scanPc = "called"
    /\ scanResults = [p \in {} |-> DisabledResult]
    /\ scanTotal = 0
    /\ scanTask = [p \in Properties |-> "idle"]
    /\ rootTask = [p \in Properties |-> <<>>]
    /\ globalScanned = FALSE
    /\ ddReads = 0
    /\ scannerRuns = {}
    /\ cwd = HomeDir
    /\ SafeDeleteIdle
    /\ CleanupIdle
    /\ MainIdle
    /\ SizeIdle
    /\ MetaIdle
    /\ WalkIdle

NextScan ==
    \/ RunAllScansStart
    \/ \E i \in 1..Len(paths) : XcodeDerivedData(i)
    \/ \E p \in Properties, i \in 1..Len(paths) : RootScanSettle(p, i)
    \/ \E p \in Properties : CategoryMerge(p)
    \/ \E p \in Properties : GlobalSettle(p)
    \/ RunAllScansResolve

SpecScan == InitScan /\ [][NextScan]_vars

----------------------------------------------------------------------------
(* Specification of the getDirectorySize calls of one process *)

\* a fresh process: nothing cached, MaxRequests calls to come
InitSizeCalls ==
    /\ sizeCache = [p \in {} |-> 0]
    /\ sizeReq = [r \in 1..MaxRequests |-> NoRequest]
    /\ walks = [p \in SizePaths |-> 0]
    /\ diskBytes = [p \in SizePaths |-> 1]
    /\ cwd = HomeDir
    /\ SafeDeleteIdle
    /\ CleanupIdle
    /\ MainIdle
    /\ ScanIdle
    /\ MetaIdle
    /\ WalkIdle

NextSize ==
    \/ \E r \in 1..MaxRequests, p \in SizePaths, useCache \in BOOLEAN :
          GetDirectorySizeCall(r, p, useCache)
    \/ \E r \in 1..MaxRequests : GetDirectorySizeSettle(r)
    \/ ClearSizeCache
    \/ \E p \in SizePaths : DiskChange(p)

SpecSize == InitSizeCalls /\ [][NextSize]_vars

----------------------------------------------------------------------------
(* Specification of one call getMetadata(dirPath) *)

InitMeta ==
    /\ clock \in TimePool
    /\ mtime \in TimePool \cup {NullDate}
    /\ metaPc = "called"
    /\ metadata = NoMetadata
    /\ cwd = HomeDir
    /\ SafeDeleteIdle
    /\ CleanupIdle
    /\ MainIdle
    /\ ScanIdle
    /\ SizeIdle
    /\ WalkIdle

SpecMeta == InitMeta /\ [][GetMetadata]_vars

----------------------------------------------------------------------------
(* Specification of one call scan(basePath) of a scanner that walks its root,
   with the scanners' maxDepth and with a small one *)

\* the file systems scanned, each with the roots a scan is given and the paths
\* at which a call fails: (1) dependency directories nested in one another and
\* below directories whose names contain theirs; (2) build directories with
\* and without a manifest beside them; (3) symbolic links, one of them to its
\* own parent, another out of the root, and a chain of directories deeper than
\* MAX_SCAN_DEPTH; (4) directories named in IGNORE_DIRS and directories whose
\* names end with such a name
DiskPool ==
    LET D(segs) == [segs |-> segs, kind |-> "dir", target |-> <<>>, size |-> 0]
        F(segs, n) == [segs |-> segs, kind |-> "file", target |-> <<>>, size |-> n]
        L(segs, to) == [segs |-> segs, kind |-> "symlink", target |-> to, size |-> 0]
        O(segs) == [segs |-> segs, kind |-> "other", target |-> <<>>, size |-> 0]
        u == <<"u">>
        nm == <<"node_modules">>
        pods == <<"Pods">>
        proj == <<"proj">>
        parser == <<"my-", "node_modules", "-parser">>
        app == <<"My", "Pods", "App">>
        d == <<"d">>
        lib == <<"My", "Library">>
        old == <<"old_", "node_modules">>
    IN { [fs |-> DiskOf(<< D(<<u>>),
                           D(<<u, proj>>),
                           D(<<u, proj, nm>>),
                           D(<<u, proj, nm, <<"pkg">> >>),
                           D(<<u, proj, nm, <<"pkg">>, nm>>),
                           F(<<u, proj, nm, <<"pkg">>, nm, <<"f">> >>, 3),
                           D(<<u, proj, pods>>),
                           D(<<u, proj, pods, <<"Sub">> >>),
                           D(<<u, proj, pods, <<"Sub">>, pods>>),
                           F(<<u, proj, pods, <<"Sub">>, pods, <<"g">> >>, 2),
                           D(<<u, parser>>),
                           D(<<u, parser, nm>>),
                           F(<<u, parser, nm, <<"h">> >>, 1),
                           D(<<u, app>>),
                           D(<<u, app, pods>>),
                           F(<<u, app, pods, <<"k">> >>, 4) >>),
          roots |-> { AbsOf(<<u>>), AbsOf(<<u, proj, nm, <<"pkg">> >>),
                      AbsOf(<<u, proj, pods, <<"Sub">> >>) },
          faultAt |-> { AbsOf(<<u, proj>>), AbsOf(<<u, proj, nm>>),
                        AbsOf(<<u, app, pods, <<"k">> >>) }],
         [fs |-> DiskOf(<< D(<<u>>),
                           D(<<u, <<"r">> >>),
                           F(<<u, <<"r">>, <<"Cargo", Dot, "toml">> >>, 1),
                           D(<<u, <<"r">>, <<"target">> >>),
                           F(<<u, <<"r">>, <<"target">>, <<"o">> >>, 8),
                           D(<<u, <<"s">> >>),
                           D(<<u, <<"s">>, <<"target">> >>),
                           D(<<u, <<"g">> >>),
                           F(<<u, <<"g">>, <<"settings", Dot, "gradle">> >>, 1),
                           D(<<u, <<"g">>, <<"build">> >>),
                           D(<<u, <<"g">>, <<"build">>, <<Dot, "gradle">> >>),
                           D(<<u, <<"g">>, <<Dot, "gradle">> >>),
                           D(<<u, <<"k">> >>),
                           F(<<u, <<"k">>, <<"build", Dot, "gradle", Dot, "kts">> >>, 1),
                           F(<<u, <<"k">>, <<"pubspec", Dot, "yaml">> >>, 1),
                           D(<<u, <<"k">>, <<"build">> >>),
                           D(<<u, <<"k">>, <<Dot, "dart_tool">> >>),
                           D(<<u, <<"c">> >>),
                           F(<<u, <<"c">>, <<"CMakeLists", Dot, "txt">> >>, 1),
                           D(<<u, <<"c">>, <<"cmake-build-debug">> >>),
                           D(<<u, <<"e">> >>),
                           D(<<u, <<"e">>, <<"cmake-build-debug">> >>),
                           D(<<u, <<"e">>, <<"build">> >>) >>),
          roots |-> { AbsOf(<<u>>) },
          faultAt |-> { AbsOf(<<u, <<"g">> >>), AbsOf(<<u, <<"r">>, <<"target">> >>) }],
         [fs |-> DiskOf(<< D(<<u>>),
                           D(<<u, <<"a">> >>),
                           L(<<u, <<"a">>, <<"loop">> >>, <<u, <<"a">> >>),
                           D(<<u, <<"a">>, nm>>),
                           F(<<u, <<"a">>, nm, <<"f">> >>, 5),
                           L(<<u, <<"ln">> >>, <<<<"x">> >>),
                           O(<<u, <<"sock">> >>),
                           D(<<u, d>>),
                           D(<<u, d, d>>),
                           D(<<u, d, d, d>>),
                           D(<<u, d, d, d, d>>),
                           D(<<u, d, d, d, d, nm>>),
                           D(<<u, d, d, d, d, d>>),
                           F(<<u, d, d, d, d, d, <<"f">> >>, 1),
                           D(<<u, d, d, d, d, d, nm>>),
                           D(<<<<"x">> >>),
                           D(<<<<"x">>, nm>>),
                           F(<<<<"x">>, nm, <<"f">> >>, 7) >>),
          roots |-> { AbsOf(<<u>>) },
          faultAt |-> { AbsOf(<<u, <<"a">> >>), AbsOf(<<u, d, d>>) }],
         [fs |-> DiskOf(<< D(<<u>>),
                           D(<<u, <<"Library">> >>),
                           D(<<u, <<"Library">>, nm>>),
                           D(<<u, lib>>),
                           D(<<u, lib, nm>>),
                           D(<<u, <<Dot, "git">> >>),
                           D(<<u, <<Dot, "git">>, <<"target">> >>),
                           D(<<u, old>>),
                           D(<<u, old, nm>>),
                           D(<<u, <<"w">> >>),
                           D(<<u, <<"w">>, nm>>),
                           F(<<u, <<"w">>, nm, <<"f">> >>, 6),
                           D(<<u, <<"w">>, pods>>) >>),
          roots |-> { AbsOf(<<u>>) },
          faultAt |-> { AbsOf(<<u, lib>>), AbsOf(<<u, <<"w">>, nm>>) }] }

InitWalk ==
    /\ \E dk \in DiskPool :
          /\ disk = dk.fs
          /\ scanRoot \in dk.roots
          /\ fault \in {NoFault}
                       \cup [path : dk.faultAt, op : {"lstat", "readdir"},
                             code : {"EACCES", "ENOENT", "EIO"}]
    /\ scanKind \in ScanKinds
    /\ maxDepth \in {1, MAX_SCAN_DEPTH}
    /\ targetIdx = 1
    /\ foundDirs = <<>>
    /\ scannerPc = "find"
    /\ scanOut = [pc |-> "pending", value |-> RootFailureResult]
    /\ walkPc = "idle"
    /\ walkTodo = <<>>
    /\ visited = <<>>
    /\ statted = {}
    /\ listed = {}
    /\ cwd = HomeDir
    /\ SafeDeleteIdle
    /\ CleanupIdle
    /\ MainIdle
    /\ ScanIdle
    /\ SizeIdle
    /\ MetaIdle

NextWalk ==
    \/ FindDirectoriesCall
    \/ WalkStep
    \/ FindDirectoriesReturn
    \/ ScanSettle

SpecWalk == InitWalk /\ [][NextWalk]_vars

----------------------------------------------------------------------------
(* ui/prompts.js: promptForCleanup, and main() around it *)

AGE_3_MONTHS_DAYS == 90
AGE_6_MONTHS_DAYS == 180
AGE_1_YEAR_DAYS == 365
SIZE_500_MB == 500 * 1024 * 1024
SIZE_1_GB == 1024 * 1024 * 1024

AGE_BUCKETS == <<AGE_3_MONTHS_DAYS, AGE_6_MONTHS_DAYS, AGE_1_YEAR_DAYS>>
SIZE_BUCKETS == <<SIZE_500_MB, SIZE_1_GB>>

\* a checkbox choice whose value is { type, items }
GroupChoice(type, its) == [kind |-> "group", type |-> type, items |-> its]

\* buildCategoryChoices: an age or size choice only when its subset is not
\* empty, then the ALL choice, then the custom_select choice
buildCategoryChoices(its, type) ==
    LET older(k) == SelectSeq(its, LAMBDA i : i.lastModifiedDays > AGE_BUCKETS[k])
        larger(k) == SelectSeq(its, LAMBDA i : i.size >= SIZE_BUCKETS[k])
        choice(subset) == IF Len(subset) = 0 THEN <<>> ELSE << GroupChoice(type, subset) >>
    IN choice(older(1)) \o choice(older(2)) \o choice(older(3))
       \o choice(larger(1)) \o choice(larger(2))
       \o << GroupChoice(type, its) >>
       \o << [kind |-> "custom_select", type |-> type, items |-> its] >>

\* faulty variant of promptCategories: the tool-data category is offered too
promptCategories_WithAiDevTools ==
    << [property |-> "nodeModules", type |-> "node_modules"],
       [property |-> "pythonVenvs", type |-> "python_venv"],
       [property |-> "pods", type |-> "pods"],
       [property |-> "rustTargets", type |-> "rust_target"],
       [property |-> "gradleBuilds", type |-> "gradle_build"],
       [property |-> "cmakeBuilds", type |-> "cmake_build"],
       [property |-> "flutterBuilds", type |-> "flutter_build"],
       [property |-> "xcodeBuilds", type |-> "xcode_build"],
       [property |-> "nvmVersions", type |-> "nvm"],
       [property |-> "aiDevTools", type |-> "ai_dev_tools"] >>

\* the categories promptForCleanup builds choices for, in its order
promptCategories ==
    << [property |-> "nodeModules", type |-> "node_modules"],
       [property |-> "pythonVenvs", type |-> "python_venv"],
       [property |-> "pods", type |-> "pods"],
       [property |-> "rustTargets", type |-> "rust_target"],
       [property |-> "gradleBuilds", type |-> "gradle_build"],
       [property |-> "cmakeBuilds", type |-> "cmake_build"],
       [property |-> "flutterBuilds", type |-> "flutter_build"],
       [property |-> "xcodeBuilds", type |-> "xcode_build"],
       [property |-> "nvmVersions", type |-> "nvm"] >>

\* faulty variant of nvmChoiceItems: the current version is kept
nvmChoiceItems_KeepsCurrent(its) == its

\* scanResults.nvmVersions.items.filter(i => !i.isCurrent)
nvmChoiceItems(its) == SelectSeq(its, LAMBDA i : ~i.isCurrent)

\* the choices of one category: none unless its count is positive; of the nvm
\* versions only those that are not the current one
RECURSIVE categoryChoicesFrom(_, _)
categoryChoicesFrom(sr, c) ==
    IF c > Len(promptCategories) THEN <<>>
    ELSE LET cat == promptCategories[c]
             its == IF cat.property = "nvmVersions"
                    THEN nvmChoiceItems(sr[cat.property].items)
                    ELSE sr[cat.property].items
         IN (IF sr[cat.property].count > 0 THEN buildCategoryChoices(its, cat.type) ELSE <<>>)
            \o categoryChoicesFrom(sr, c + 1)

\* the choices of promptForCleanup's checkbox (the separator cannot be checked)
promptChoices(sr) ==
    << [kind |-> "skip", type |-> "__skip__", items |-> <<>>] >> \o categoryChoicesFrom(sr, 1)

\* [...allItems].sort((a, b) => (b.size || 0) - (a.size || 0)): a stable sort,
\* largest first
RECURSIVE sortBySizeDesc(_)
sortBySizeDesc(its) ==
    IF Len(its) = 0 THEN <<>>
    ELSE LET first == CHOOSE k \in 1..Len(its) :
                        /\ \A j \in 1..Len(its) : its[j].size <= its[k].size
                        /\ \A j \in 1..(k - 1) : its[j].size < its[k].size
         IN << its[first] >>
            \o sortBySizeDesc([j \in 1..(Len(its) - 1) |-> IF j < first THEN its[j] ELSE its[j + 1]])

\* the elements of a list at the given positions, in list order
AtPositions(list, positions) ==
    LET idxs == SelectSeq([i \in 1..Len(list) |-> i], LAMBDA i : i \in positions)
    IN [k \in 1..Len(idxs) |-> list[idxs[k]]]

\* the loop over the checked values, from the k-th on, as the set of lists it
\* can end with: a custom_select value opens promptForSpecificItems, in which
\* the user checks any of the items, and these become a selection unless there
\* are none; any other value is pushed as it is
RECURSIVE finalSelections(_, _)
finalSelections(raw, k) ==
    IF k > Len(raw) THEN { <<>> }
    ELSE LET rest == finalSelections(raw, k + 1)
         IN IF raw[k].kind = "custom_select"
            THEN UNION { LET specificItems == AtPositions(sortBySizeDesc(raw[k].items), picked)
                             pushed == IF Len(specificItems) > 0
                                       THEN << [hasItems |-> TRUE, type |-> raw[k].type,
                                                items |-> specificItems] >>
                                       ELSE <<>>
                         IN {pushed \o r : r \in rest} :
                         picked \in SUBSET (1..Len(raw[k].items)) }
            ELSE { << [hasItems |-> TRUE, type |-> raw[k].type, items |-> raw[k].items] >> \o r :
                     r \in rest }

\* what promptForCleanup can return once the checkbox is answered with the
\* choices at the checked positions: nothing when Skip is among them
promptForCleanup(sr, checked) ==
    LET raw == AtPositions(promptChoices(sr), checked)
    IN IF \E k \in 1..Len(raw) : raw[k].kind = "skip" THEN { <<>> }
       ELSE finalSelections(raw, 1)

\* await promptForCleanup(scanResults) in main(): a prompt is cancelled or
\* fails, or the user checks at most MaxChecked choices
MainPromptForCleanup ==
    /\ mainPc = "prompt"
    /\ \E answer \in {"cancel", "error", "answered"} :
        IF answer = "cancel" THEN Exit(EXIT_CANCELLED) /\ selections' = selections
        ELSE IF answer = "error" THEN Exit(EXIT_ERROR) /\ selections' = selections
        ELSE \E checked \in {c \in SUBSET (1..Len(promptChoices(scanResults))) :
                               Cardinality(c) <= MaxChecked} :
             \E sels \in promptForCleanup(scanResults, checked) :
                /\ selections' = sels
                /\ IF Len(sels) = 0 THEN Exit(EXIT_SUCCESS)
                   ELSE mainPc' = "confirm" /\ exitCode' = exitCode
    /\ UNCHANGED <<cwd, scanPhaseVars, sdVars, cleanupVars, options, scanFound, history,
                   confirmAnswer>>

\* main(): onlyAiDevTools
onlyAiDevTools(flags) ==
    /\ flags["scanAiDevTools"]
    /\ \A k \in RegistryKeys \ {"scanAiDevTools"} : ~flags[k]

\* main(): hasAnything
hasAnything(sr) == \E p \in Properties : sr[p].count > 0

\* main(): hasDeletable
hasDeletable(sr) == \E p \in Properties \ {"aiDevTools"} : sr[p].count > 0

\* what the scanners report to the prompt, with the fields the prompt reads: a
\* small directory of unknown age and a large one a hundred days old, for nvm
\* an old version and the current one
FoundItems(property) ==
    IF property = "nvmVersions"
    THEN << [path |-> HomeDir \o <<Sep, Dot, "nvm", Sep, "v18">>, size |-> SIZE_500_MB,
             lastModifiedDays |-> 200, isCurrent |-> FALSE],
            [path |-> HomeDir \o <<Sep, Dot, "nvm", Sep, "v20">>, size |-> 4096,
             lastModifiedDays |-> 3, isCurrent |-> TRUE] >>
    ELSE IF property = "aiDevTools"
    THEN << [path |-> HomeDir \o <<Sep, Dot, "cursor">>, size |-> SIZE_500_MB,
             lastModifiedDays |-> 400, isCurrent |-> FALSE] >>
    ELSE << [path |-> ProjectDirs[3] \o <<Sep, TargetName(property)>>, size |-> 4096,
             lastModifiedDays |-> LmdInfinity, isCurrent |-> FALSE],
            [path |-> ProjectDirs[1] \o <<Sep, TargetName(property)>>, size |-> SIZE_500_MB,
             lastModifiedDays |-> 100, isCurrent |-> FALSE] >>

\* the report of a scan with the given flags in which the categories in found
\* found their items and the others nothing
ReportOf(flags, found) ==
    [p \in Properties |->
        IF ~isEnabled(flags, EntryOf(p).key) THEN DisabledResult
        ELSE IF EntryOf(p).isGlobal
        THEN scanResult(IF p \in found THEN FoundItems(p) ELSE <<>>)
        ELSE mergeResults(<< scanResult(IF p \in found THEN FoundItems(p) ELSE <<>>) >>)]

\* results.totalSize of a report
RECURSIVE totalSizeOf(_, _)
totalSizeOf(sr, i) ==
    IF i = 0 THEN 0
    ELSE addTotalSize(totalSizeOf(sr, i - 1), sr[SCANNER_REGISTRY[i].property])

----------------------------------------------------------------------------
(* Specification of main() from the scan's report to the start of the cleanup,
   with the prompt's choices built from the report *)

InitPrompt ==
    /\ scanFlags \in {f \in [RegistryKeys -> BOOLEAN] :
                         Cardinality({k \in RegistryKeys : f[k]}) <= MaxEnabled}
    /\ \E found \in SUBSET {p \in Properties : scanFlags[EntryOf(p).key]} :
          scanResults = ReportOf(scanFlags, found)
    /\ scanTotal = totalSizeOf(scanResults, Len(SCANNER_REGISTRY))
    /\ scanPc = "resolved"
    /\ paths = << ProjectDirs[1], ProjectDirs[3] >>
    /\ derivedData = NoDerivedData
    /\ scanTask = [p \in Properties |-> "returned"]
    /\ rootTask = [p \in Properties |-> <<>>]
    /\ globalScanned = FALSE
    /\ ddReads = 0
    /\ scannerRuns = {p \in Properties : scanFlags[EntryOf(p).key]}
    /\ options \in {[dryRun |-> FALSE, yes |-> y, interactive |-> TRUE,
                     onlyAiDevTools |-> onlyAiDevTools(scanFlags)] : y \in BOOLEAN}
    /\ scanFound = [hasAnything |-> hasAnything(scanResults),
                    hasDeletable |-> hasDeletable(scanResults)]
    /\ mainPc = "scanned"
    /\ exitCode = -1
    /\ selections = <<>>
    /\ history = <<>>
    /\ confirmAnswer = "none"
    /\ cwd = HomeDir
    /\ SafeDeleteIdle
    /\ CleanupIdle
    /\ SizeIdle
    /\ MetaIdle
    /\ WalkIdle

NextPrompt ==
    \/ MainAfterScan
    \/ MainPromptForCleanup
    \/ MainConfirm
    \/ PerformCleanupStart

SpecPrompt == InitPrompt /\ [][NextPrompt]_vars

----------------------------------------------------------------------------
(* Notions the properties are stated in *)

\* the segments of an absolute normalised path
SegsOf(p) == NormalizeSegs(Split(p), 1, <<>>)

\* true path ancestry: r lies strictly below h
IsStrictDescendant(r, h) ==
    /\ Len(SegsOf(r)) > Len(SegsOf(h))
    /\ SubSeq(SegsOf(r), 1, Len(SegsOf(h))) = SegsOf(h)

Resolved == PathResolve(cwd, sdPath)

\* home/Desktop, home/Documents, home/Downloads, home/.ssh, home/Library
ProtectedFive ==
    { HomeDir \o <<Sep>> \o n :
        n \in { <<"Desktop">>, <<"Documents">>, <<"Downloads">>, <<Dot, "ssh">>, <<"Library">> } }

\* safeDelete has run its validation for sdPath
SdEntered == sdPc \in {"trash", "resolved", "rejected"}

\* all items of all selections, in selection order
RECURSIVE FlatFrom(_, _)
FlatFrom(sels, i) ==
    IF i > Len(sels) THEN <<>>
    ELSE (IF sels[i].hasItems THEN sels[i].items ELSE <<>>) \o FlatFrom(sels, i + 1)

Flat(sels) == FlatFrom(sels, 1)

IsFirstOccurrence(flat, k) == \A j \in 1..(k - 1) : flat[j].path # flat[k].path

DistinctPaths(sels) == {Flat(sels)[k].path : k \in 1..Len(Flat(sels))}

\* a missing size counts as 0
SizeValue(size) == IF size = NoSize THEN 0 ELSE size

\* the sizes of the distinct paths, each taken once, at its first occurrence
RECURSIVE SumFirstSizes(_, _)
SumFirstSizes(flat, k) ==
    IF k > Len(flat) THEN 0
    ELSE (IF IsFirstOccurrence(flat, k) THEN SizeValue(flat[k].size) ELSE 0)
         + SumFirstSizes(flat, k + 1)

RECURSIVE SumSuccessSizes(_, _)
SumSuccessSizes(rs, k) ==
    IF k > Len(rs) THEN 0
    ELSE (IF rs[k].success THEN rs[k].size ELSE 0) + SumSuccessSizes(rs, k + 1)

----------------------------------------------------------------------------
(* Properties *)

\* C1: trash is invoked only with the resolved form of a path for which
\* validatePathForDeletion returned without throwing; a call whose path fails
\* validation rejects with the validation error and trash is not invoked for it.
C1_TrashOnlyAfterValidation ==
    /\ \A i \in 1..Len(trashCalls) :
        /\ trashCalls[i].dirPath \in validated
        /\ trashCalls[i].paths = <<PathResolve(cwd, trashCalls[i].dirPath)>>
    /\ SdEntered =>
        LET err == validatePathForDeletion(cwd, sdPath)
        IN /\ (err = NoError) <=> (sdPath \in validated)
           /\ err # NoError =>
                /\ sdPc = "rejected"
                /\ sdError = err
                /\ \A i \in 1..Len(trashCalls) : trashCalls[i].dirPath # sdPath

\* C1 witness: a cleanup in which one item was rejected by validation and
\* another item reached trash.
C1_Witness ==
    /\ Len(trashCalls) >= 1
    /\ \E k \in 1..Len(results) : ~results[k].success /\ results[k].error = ErrOutsideHome

\* C2 (as claimed): every input that is neither empty nor resolves to the root,
\* and whose resolved form is not a strict descendant of home by path
\* ancestry, is rejected with 'Can only delete within home directory'.
C2_OutsideHomeRejected ==
    (SdEntered /\ sdPath # EmptyStr /\ Resolved # RootStr
        /\ ~IsStrictDescendant(Resolved, HomeDir))
    => (sdPc = "rejected" /\ sdError = ErrOutsideHome)

\* C3: for a path under home, validation fails with 'Cannot delete protected
\* directory' exactly when the resolved path is one of the five protected
\* directories; every other path under home, strict descendants of a
\* protected directory included, passes validation.
C3_ProtectedExactly ==
    (SdEntered /\ IsStrictDescendant(Resolved, HomeDir)) =>
        /\ (Resolved \in ProtectedFive) <=> (sdPc = "rejected" /\ sdError = ErrProtected \o sdPath)
        /\ (Resolved \notin ProtectedFive) <=> (sdPath \in validated)

\* C3 witness: a strict descendant of a protected directory passed validation.
C3_Witness ==
    /\ SdEntered
    /\ \E p \in ProtectedFive : IsStrictDescendant(Resolved, p)
    /\ sdPath \in validated

\* C4 (as claimed): the empty path and every input whose resolved form is the
\* filesystem root fail with 'Invalid path for deletion'.
C4_RootIsInvalidPath ==
    (SdEntered /\ (sdPath = EmptyStr \/ Resolved = RootStr))
    => (sdPc = "rejected" /\ sdError = ErrInvalidPath)

\* C5: with dryRun set, trash is never invoked, and performCleanup's totalFreed
\* is the sum of the sizes of the distinct selected paths, each counted once,
\* and successCount is the number of distinct paths.
C5_DryRunTotals ==
    options.dryRun =>
        /\ trashCalls = <<>>
        /\ cleanupPc = "done" =>
            /\ cleanupResult.totalFreed = SumFirstSizes(Flat(selections), 1)
            /\ cleanupResult.successCount = Cardinality(DistinctPaths(selections))

\* C5 witness: a finished dry run over overlapping selections that freed bytes.
C5_Witness ==
    /\ options.dryRun
    /\ cleanupPc = "done"
    /\ Len(selections) = 2
    /\ Len(Flat(selections)) > Cardinality(DistinctPaths(selections))
    /\ cleanupResult.totalFreed > 0

\* C6 (as claimed): with dryRun set, an item whose path fails validation is
\* recorded as a failed outcome and its size is not added to totalFreed.
C6_DryRunValidates ==
    (options.dryRun /\ cleanupPc = "done") =>
        /\ \A k \in 1..Len(cleanupResult.results) :
            validatePathForDeletion(cwd, cleanupResult.results[k].path) # NoError
                => ~cleanupResult.results[k].success
        /\ cleanupResult.totalFreed = SumSuccessSizes(cleanupResult.results, 1)

\* C7: in a CLI run with --dry-run no step invokes trash and no step changes
\* the cleanup history.
C7_DryRunNoMutation ==
    [][options.dryRun => (trashCalls' = trashCalls /\ history' = history)]_vars

\* C7 witness: a dry run with --yes that finished with successes and exited.
C7_Witness ==
    /\ options.dryRun
    /\ options.yes
    /\ mainPc = "exited"
    /\ cleanupPc = "done"
    /\ cleanupResult.successCount > 0

\* C8: the deduplicated list holds no path twice, holds every path of every
\* selection, and each entry carries the size (0 for a missing one) and
\* lastModifiedDays of the first occurrence of its path in selection order.
C8_DedupeFirstWins ==
    cleanupPc # "idle" =>
        LET flat == Flat(selections)
        IN /\ \A a, b \in 1..Len(items) : a # b => items[a].path # items[b].path
           /\ \A k \in 1..Len(flat) : \E a \in 1..Len(items) : items[a].path = flat[k].path
           /\ \A a \in 1..Len(items) :
                \E k \in 1..Len(flat) :
                    /\ flat[k].path = items[a].path
                    /\ IsFirstOccurrence(flat, k)
                    /\ items[a].size = SizeValue(flat[k].size)
                    /\ items[a].lastModifiedDays = flat[k].lastModifiedDays

\* C8 witness: the same path occurs in two selections with different metadata.
C8_Witness ==
    /\ cleanupPc # "idle"
    /\ Len(selections) = 2
    /\ \E a \in 1..Len(selections[1].items), b \in 1..Len(selections[2].items) :
        /\ selections[1].items[a].path = selections[2].items[b].path
        /\ selections[1].items[a].size # selections[2].items[b].size

\* C9: performCleanup never rejects and never stops before the last item;
\* when it resolves there is exactly one outcome per distinct path, in item
\* order, and successCount + failCount is the number of distinct paths.
C9_BatchNeverAborts ==
    /\ cleanupPc \in {"idle", "loop", "await", "done"}
    /\ cleanupPc = "loop" => idx <= Len(items) + 1
    /\ cleanupPc = "await" => (idx <= Len(items) /\ sdPc \in {"trash", "resolved", "rejected"})
    /\ cleanupPc \in {"loop", "await"} => Len(results) = idx - 1
    /\ cleanupPc = "done" =>
        /\ Len(cleanupResult.results) = Cardinality(DistinctPaths(selections))
        /\ {cleanupResult.results[k].path : k \in 1..Len(cleanupResult.results)}
             = DistinctPaths(selections)
        /\ \A k \in 1..Len(cleanupResult.results) : cleanupResult.results[k].path = items[k].path
        /\ cleanupResult.successCount + cleanupResult.failCount
             = Cardinality(DistinctPaths(selections))

\* C9 witness: a finished cleanup whose first item failed and whose second
\* item succeeded.
C9_Witness ==
    /\ cleanupPc = "done"
    /\ Len(cleanupResult.results) = 2
    /\ ~cleanupResult.results[1].success
    /\ cleanupResult.results[2].success

\* C10: for a validated path whose trash call failed: ENOENT makes the item a
\* success whose size is counted in totalFreed, EACCES makes it a failure
\* with 'Permission denied: <path>', any other error makes it a failure with
\* the original message.
C10_TrashErrors ==
    /\ \A i \in 1..Len(trashCalls) : \A k \in 1..Len(results) :
        LET c == trashCalls[i]
            r == results[k]
        IN r.path = c.dirPath =>
            /\ c.outcome.code = "ENOENT" => (r.success /\ r.size = items[k].size)
            /\ c.outcome.code = "EACCES" =>
                (~r.success /\ r.error = ErrPermission \o c.dirPath)
            /\ (~c.outcome.ok /\ c.outcome.code \notin {"ENOENT", "EACCES"}) =>
                (~r.success /\ r.error = c.outcome.message)
    /\ (sdPc \in {"resolved", "rejected"} /\ Len(trashCalls) > 0
            /\ trashCalls[Len(trashCalls)].dirPath = sdPath) =>
        LET o == trashCalls[Len(trashCalls)].outcome
        IN /\ o.code = "ENOENT" => sdPc = "resolved"
           /\ o.code = "EACCES" => (sdPc = "rejected" /\ sdError = ErrPermission \o sdPath)
           /\ (~o.ok /\ o.code \notin {"ENOENT", "EACCES"}) =>
                (sdPc = "rejected" /\ sdError = o.message)
    /\ totalFreed = SumSuccessSizes(results, 1)
    /\ cleanupPc = "done" => cleanupResult.totalFreed = SumSuccessSizes(cleanupResult.results, 1)

\* C10 witness: a finished cleanup in which trash failed with ENOENT for an
\* item that is counted as freed.
C10_Witness ==
    /\ cleanupPc = "done"
    /\ cleanupResult.totalFreed > 0
    /\ cleanupResult.failCount = 0
    /\ \A i \in 1..Len(trashCalls) : trashCalls[i].outcome.code = "ENOENT"
    /\ Len(trashCalls) >= 1

\* C11: performCleanup, and with it any call of trash, is reached only after a
\* non-empty selection was made and either --yes was passed or confirmCleanup
\* returned true; when the confirmation is declined or cancelled, the prompt is
\* cancelled, Skip is chosen or --no-interactive is set, the process exits
\* without performCleanup having been called.
C11_CleanupOnlyAfterConfirmation ==
    /\ (cleanupPc # "idle" \/ trashCalls # <<>>) =>
        /\ Len(selections) > 0
        /\ options.interactive
        /\ (options.yes \/ confirmAnswer = "yes")
    /\ (mainPc = "exited" /\ (\/ confirmAnswer \in {"no", "cancel", "error"}
                              \/ exitCode = EXIT_CANCELLED
                              \/ Len(selections) = 0
                              \/ ~options.interactive)) =>
        /\ cleanupPc = "idle"
        /\ trashCalls = <<>>

\* C11 witness: without --yes, the user confirmed and an item was moved to Trash.
C11_Witness ==
    /\ ~options.yes
    /\ confirmAnswer = "yes"
    /\ cleanupPc = "done"
    /\ Len(trashCalls) > 0

\* the paths of the items the scan reported for the tool-data category
AiDevToolsPaths ==
    IF "aiDevTools" \in DOMAIN scanResults
    THEN {scanResults["aiDevTools"].items[k].path :
            k \in 1..Len(scanResults["aiDevTools"].items)}
    ELSE {}

\* C12: the tool-data (AI dev tools) category is review-only: promptForCleanup
\* builds no choice from scanResults.aiDevTools, and no item of that category
\* is in the selections handed to confirmCleanup or performCleanup, nor among
\* the items performCleanup works on.
C12_AiDevToolsNeverSelected ==
    /\ mainPc = "prompt" =>
        \A c \in 1..Len(promptChoices(scanResults)) :
            LET choice == promptChoices(scanResults)[c]
            IN /\ choice.type # "ai_dev_tools"
               /\ \A j \in 1..Len(choice.items) : choice.items[j].path \notin AiDevToolsPaths
    /\ \A i \in 1..Len(selections) :
        /\ selections[i].type # "ai_dev_tools"
        /\ \A j \in 1..Len(selections[i].items) :
              selections[i].items[j].path \notin AiDevToolsPaths
    /\ \A k \in 1..Len(items) : items[k].path \notin AiDevToolsPaths

\* C12 witness: the scan reported a tool-data directory next to deletable
\* directories, the user selected some of these and confirmed, and
\* performCleanup took up its items.
C12_Witness ==
    /\ AiDevToolsPaths # {}
    /\ cleanupPc = "loop"
    /\ Len(items) > 0

\* the properties of the categories whose flag is set
EnabledProperties == {p \in Properties : scanFlags[EntryOf(p).key]}

EmptyCategoryResult(r) == r.items = <<>> /\ r.totalSize = 0 /\ r.count = 0

\* C13: the scanner of a category whose flag is not set is never run, and when
\* runAllScans resolves the report holds an entry for each of the ten
\* registered categories, the entry of such a category being the empty
\* result; for every combination of flags.
C13_EveryCategoryReported ==
    /\ scannerRuns \subseteq EnabledProperties
    /\ \A p \in Properties \ EnabledProperties : rootTask[p] = <<>>
    /\ scanPc = "resolved" =>
        /\ DOMAIN scanResults = Properties
        /\ Cardinality(DOMAIN scanResults) = 10
        /\ \A p \in Properties \ EnabledProperties : EmptyCategoryResult(scanResults[p])

\* C13 witness: a scan resolved in which one category was scanned and found
\* something and the nine others were not enabled.
C13_Witness ==
    /\ scanPc = "resolved"
    /\ EnabledProperties = {"pods"}
    /\ scanResults["pods"].count > 0
    /\ scannerRuns = {"pods"}

\* the sum of totalSize over the entries of the given properties
RECURSIVE SumOfTotals(_, _)
SumOfTotals(report, ps) ==
    IF ps = {} THEN 0
    ELSE LET p == CHOOSE q \in ps : TRUE
         IN report[p].totalSize + SumOfTotals(report, ps \ {p})

\* C14: results.totalSize is the sum of totalSize over the category results
\* stored in the report, in every order in which the category tasks complete:
\* at every moment of the scan for the results stored so far, and when
\* runAllScans resolves for all ten, failed categories included.
C14_TotalIsSumOfCategories ==
    /\ scanPc \in {"running", "resolved"} =>
          scanTotal = SumOfTotals(scanResults, DOMAIN scanResults)
    /\ scanPc = "resolved" => scanTotal = SumOfTotals(scanResults, Properties)

\* C14 witness: a scan resolved in which two categories added a size to the
\* total and the scan of one root had failed.
C14_Witness ==
    /\ scanPc = "resolved"
    /\ \E p, q \in Properties :
        /\ p # q
        /\ scanResults[p].totalSize > 0
        /\ scanResults[q].totalSize > 0
    /\ \E p \in Properties : \E i \in 1..Len(rootTask[p]) : rootTask[p][i].outcome = "reject"

\* how often a path occurs among items
Occurrences(its, path) == Cardinality({k \in 1..Len(its) : its[k].path = path})

\* the paths of the entries of DerivedData
DerivedDataChildren ==
    {derivedDataPath \o <<Sep, derivedData.children[k].name>> :
        k \in 1..Len(derivedData.children)}

\* C15 (as claimed): with the Xcode category enabled, DerivedData is scanned
\* once however many roots there are, and in the merged xcodeBuilds every
\* entry of DerivedData occurs once (not more than once, and once when no
\* root's scan failed).
C15_DerivedDataOnce ==
    /\ ddReads <= 1
    /\ (scanPc = "resolved" /\ scanFlags["scanXcode"]) =>
        \A child \in DerivedDataChildren :
            /\ Occurrences(scanResults["xcodeBuilds"].items, child) <= 1
            /\ (\A i \in 1..Len(paths) : rootTask["xcodeBuilds"][i].outcome = "resolve")
                  => Occurrences(scanResults["xcodeBuilds"].items, child) = 1

\* what the scan of root i of a per-root category found
ScanItemsOf(p, i) ==
    rootTask[p][i].items \o (IF p = "xcodeBuilds" THEN xcodeBuildItems(paths[i])
                             ELSE findDirectories(paths[i], p))

\* the items of the roots whose scan did not reject, from root i on, in root order
RECURSIVE ItemsOfSucceedingRoots(_, _)
ItemsOfSucceedingRoots(p, i) ==
    IF i > Len(paths) THEN <<>>
    ELSE (IF rootTask[p][i].outcome = "reject" THEN <<>> ELSE ScanItemsOf(p, i))
         \o ItemsOfSucceedingRoots(p, i + 1)

\* C16: when the scan of a root rejects, runAllScans still resolves, that root
\* contributes nothing and the category's merged result holds exactly the
\* items found under the roots whose scans succeeded; a failing global scanner
\* yields the empty result for its category; every category's result depends
\* on its own scans only.
C16_FailuresStayLocal ==
    scanPc = "resolved" =>
        \A p \in EnabledProperties :
            IF EntryOf(p).isGlobal
            THEN IF scanTask[p] = "caught"
                 THEN EmptyCategoryResult(scanResults[p])
                 ELSE scanResults[p] = globalScan(p)
            ELSE /\ scanTask[p] = "returned"
                 /\ scanResults[p].items = ItemsOfSucceedingRoots(p, 1)

\* C16 witness: a scan resolved in which, of two roots of one category, the
\* scan of one rejected and the other's items were reported, and a global
\* scanner failed.
C16_Witness ==
    /\ scanPc = "resolved"
    /\ \E p \in EnabledProperties :
        /\ Len(rootTask[p]) = 2
        /\ \E i, j \in 1..2 : /\ rootTask[p][i].outcome = "reject"
                              /\ rootTask[p][j].outcome = "resolve"
        /\ scanResults[p].count > 0
    /\ \E g \in EnabledProperties : scanTask[g] = "caught"

\* C17 (as claimed): in the merged result of a per-root category no path
\* occurs twice, also when one root lies inside another.
C17_NoDuplicatePaths ==
    scanPc = "resolved" =>
        \A p \in EnabledProperties :
            ~EntryOf(p).isGlobal =>
                \A k \in 1..Len(scanResults[p].items) :
                    Occurrences(scanResults[p].items, scanResults[p].items[k].path) = 1

\* the sum of the sizes of items, from the k-th on
RECURSIVE SizeSumFrom(_, _)
SizeSumFrom(its, k) == IF k > Len(its) THEN 0 ELSE its[k].size + SizeSumFrom(its, k + 1)

\* C18: every category result of the report (a global scanner's own result, a
\* merged per-root result, the result of a category that is not enabled, the
\* fallback after a failure) has totalSize equal to the sum of its items'
\* sizes and count equal to the number of its items.
C18_ResultTotalsMatchItems ==
    \A p \in DOMAIN scanResults :
        /\ scanResults[p].totalSize = SizeSumFrom(scanResults[p].items, 1)
        /\ scanResults[p].count = Len(scanResults[p].items)

\* C18 witness: a resolved report holding a merged result of two roots with
\* three items, a global scanner's result and the results of categories that
\* are not enabled.
C18_Witness ==
    /\ scanPc = "resolved"
    /\ \E p \in EnabledProperties : Len(paths) = 2 /\ scanResults[p].count = 3
    /\ \E g \in EnabledProperties : EntryOf(g).isGlobal /\ scanResults[g].count > 0

\* C19 (as claimed): while the cache is not cleared, a resolved directory is
\* walked at most once by the requests that use the cache, requests made
\* while a first walk is still in progress included, and all of them get the
\* same value.
C19_WalkedAtMostOnce ==
    /\ \A p \in SizePaths : walks[p] <= 1
    /\ \A r, q \in 1..MaxRequests :
        (/\ sizeReq[r].pc = "resolved" /\ sizeReq[q].pc = "resolved"
         /\ sizeReq[r].path = sizeReq[q].path
         /\ sizeReq[r].useCache /\ sizeReq[q].useCache
         /\ ~sizeReq[r].beforeClear /\ ~sizeReq[q].beforeClear)
            => sizeReq[r].value = sizeReq[q].value

\* C20 (as claimed): lastModifiedDays is Infinity when the mtime cannot be
\* read, and otherwise the non-negative integer d with
\* d days <= now - mtime < d + 1 days, also when the mtime is later than now.
C20_DaysNonNegative ==
    metaPc = "resolved" =>
        IF mtime = NullDate
        THEN metadata.lastModifiedDays = LmdInfinity
        ELSE /\ metadata.lastModifiedDays >= 0
             /\ metadata.lastModifiedDays * DayMs <= clock - mtime
             /\ clock - mtime < (metadata.lastModifiedDays + 1) * DayMs

\* the candidates scan accepted: the directories its findDirectories calls
\* returned that passed its acceptance test
AcceptedCandidates == {foundDirs[k] : k \in {j \in 1..Len(foundDirs) :
                                                accepts(disk, scanKind, foundDirs[j])}}

\* the paths of the items scan resolved with
ItemPaths == {scanOut.value.items[k].path : k \in 1..Len(scanOut.value.items)}

\* C21: when computing the size of an accepted candidate raises an I/O error
\* other than permission-denied and not-found, scan rejects, the promise
\* runAllScans holds for the root settles with the empty result, and the
\* candidate is not reported as an item
C21_SizeErrorPropagates ==
    scannerPc \in {"resolved", "rejected"} =>
        \A dir \in AcceptedCandidates :
            sizeWalk(disk, fault, <<dir>>, 0).err # "none" =>
                /\ scannerPc = "rejected"
                /\ scanOut.value = RootFailureResult
                /\ dir \notin ItemPaths

\* a directory above dir is named name
HasAncestorNamed(dir, name) ==
    LET segs == NormalizeSegs(Split(dir), 1, <<>>)
    IN \E k \in 1..(Len(segs) - 1) : segs[k] = name

FoundSet == {foundDirs[k] : k \in 1..Len(foundDirs)}

EcosystemManifests ==
    [rustTargets |-> { <<"Cargo", Dot, "toml">> },
     gradleBuilds |-> { <<"build", Dot, "gradle">>, <<"build", Dot, "gradle", Dot, "kts">>,
                        <<"settings", Dot, "gradle">> },
     cmakeBuilds |-> { <<"CMakeLists", Dot, "txt">> },
     flutterBuilds |-> { <<"pubspec", Dot, "yaml">> }]

\* the directory holds an entry with one of the names
HoldsOneOf(dir, names) ==
    \E k \in 1..Len(disk[dir].entries) : disk[dir].entries[k] \in names

\* C23: an ecosystem-gated scanner reports a directory its walks found exactly
\* when the parent directory holds a manifest of its ecosystem, and reports it
\* once
C23_ManifestGate ==
    (scanKind \in DOMAIN EcosystemManifests /\ scannerPc = "resolved") =>
        /\ ItemPaths \subseteq FoundSet
        /\ \A dir \in FoundSet :
              /\ dir \in ItemPaths <=> HoldsOneOf(Dirname(dir), EcosystemManifests[scanKind])
              /\ Occurrences(scanOut.value.items, dir) <= 1

\* a Gradle scan resolved: the build and .gradle directories beside
\* settings.gradle are reported, a build directory without a manifest beside
\* it was found and is not
C23_Witness ==
    /\ scanKind = "gradleBuilds"
    /\ scannerPc = "resolved"
    /\ HomeDir \o <<Sep, "g", Sep, "build">> \in ItemPaths
    /\ HomeDir \o <<Sep, "g", Sep, Dot, "gradle">> \in ItemPaths
    /\ HomeDir \o <<Sep, "e", Sep, "build">> \in FoundSet \ ItemPaths

\* the path is a symbolic link or leads through one
ThroughSymlink(p) ==
    LET segs == NormalizeSegs(Split(p), 1, <<>>)
    IN \E k \in 1..Len(segs) :
          /\ AbsOf(SubSeq(segs, 1, k)) \in DOMAIN disk
          /\ disk[AbsOf(SubSeq(segs, 1, k))].kind = "symlink"

VisitedPaths == {visited[k].path : k \in 1..Len(visited)}

\* what is left of a walk: the nodes of the tree lstat was not yet called for,
\* each weighing more than the calls it can add, and the pending calls
WalkMeasure ==
    Cardinality(DOMAIN disk \ statted) * (Cardinality(DOMAIN disk) + 1) + Len(walkTodo)

\* C24: walkDirectory invokes its callback for no symbolic link and for no
\* path that leads through one, lists no symbolic link, calls lstat for no path
\* below one, and comes to an end: every step of a walk leaves less of the
\* finite tree to do
C24_SymlinksSkipped ==
    /\ [](/\ \A p \in VisitedPaths \cup listed : ~ThroughSymlink(p)
          /\ \A p \in statted : ~ThroughSymlink(Dirname(p)))
    /\ [][walkPc = "walking" => WalkMeasure' < WalkMeasure]_vars

\* a walk resolved on the tree in which /u/a/loop links to /u/a and /u/ln out
\* of the root: both links were examined, /u/a was visited once, and the walk
\* went on to the directories after the links
C24_Witness ==
    /\ walkPc = "resolved"
    /\ HomeDir \o <<Sep, "a", Sep, "loop">> \in statted
    /\ disk[HomeDir \o <<Sep, "a", Sep, "loop">>].kind = "symlink"
    /\ disk[HomeDir \o <<Sep, "a", Sep, "loop">>].target = HomeDir \o <<Sep, "a">>
    /\ HomeDir \o <<Sep, "ln">> \in statted
    /\ Cardinality({k \in 1..Len(visited) : visited[k].path = HomeDir \o <<Sep, "a">>}) = 1
    /\ HomeDir \o <<Sep, "d">> \in VisitedPaths

\* the name the walk in progress does not descend into
SkipName == TargetNames(scanKind)[targetIdx]

\* a walk is in progress or has ended and findDirectories has not returned yet
InWalk == scannerPc = "await"

\* the directories visited so far that the walk does not descend into
VisitedMatches ==
    {visited[k].path : k \in {j \in 1..Len(visited) :
                                 visited[j].isDirectory /\ Basename(visited[j].path) = SkipName}}

TimesVisited(p) == Cardinality({k \in 1..Len(visited) : visited[k].path = p})

\* C25: a directory that is not ignored and whose base name is in
\* skipDescendingInto is visited exactly once and nothing beneath it is
\* examined, listed or visited, so no directory findDirectories returns lies
\* inside another one it returns
C25_NoDescentIntoMatches ==
    InWalk =>
        /\ \A m \in VisitedMatches :
              /\ TimesVisited(m) = 1
              /\ m \notin listed
              /\ \A p \in VisitedPaths \cup statted \cup listed : ~IsStrictDescendant(p, m)
              /\ \A n \in VisitedMatches : ~IsStrictDescendant(n, m)
        /\ walkPc = "resolved" =>
              \A p \in statted :
                  (/\ lstat(disk, fault, p).err = "none"
                   /\ lstat(disk, fault, p).kind = "dir"
                   /\ Basename(p) = SkipName
                   /\ ~isIgnored(IGNORE_DIRS, p)) => p \in VisitedMatches

\* a walk for node_modules from /u resolved: proj/node_modules was visited and
\* the package directory inside it was not examined
C25_Witness ==
    /\ InWalk
    /\ walkPc = "resolved"
    /\ scanKind = "nodeModules"
    /\ HomeDir \o <<Sep, "proj", Sep, "node_modules">> \in VisitedMatches
    /\ HomeDir \o <<Sep, "proj", Sep, "node_modules", Sep, "pkg">> \in DOMAIN disk
    /\ HomeDir \o <<Sep, "proj", Sep, "node_modules", Sep, "pkg">> \notin statted

\* the depth of a path below the root of the walk, the root having depth 0
DepthBelowRoot(p) == Len(SegsOf(p)) - Len(SegsOf(scanRoot))

\* C26: lstat is called and the callback invoked only for paths of depth at
\* most maxDepth; the entries of a listed directory of depth at most maxDepth
\* are examined, and visited when they are files or directories that are not
\* ignored; no directory deeper than maxDepth is returned by findDirectories
\* or reported
C26_DepthBound ==
    /\ InWalk =>
          /\ \A p \in statted \cup VisitedPaths \cup listed : DepthBelowRoot(p) <= maxDepth
          /\ walkPc = "resolved" =>
                \A p \in DOMAIN disk :
                    (/\ IsStrictDescendant(p, scanRoot)
                     /\ Dirname(p) \in listed
                     /\ readdir(disk, fault, Dirname(p)).err = "none"
                     /\ DepthBelowRoot(p) <= maxDepth) =>
                        /\ p \in statted
                        /\ (/\ lstat(disk, fault, p).err = "none"
                            /\ \/ disk[p].kind = "file"
                               \/ disk[p].kind = "dir" /\ ~isIgnored(IGNORE_DIRS, p))
                               => p \in VisitedPaths
    /\ \A dir \in FoundSet \cup ItemPaths : DepthBelowRoot(dir) <= maxDepth

\* a scan for node_modules with maxDepth 5 resolved on the chain of
\* directories: the node_modules of depth 5 is reported, the directory of
\* depth 5 beside it was visited and listed, and its entries, of depth 6, among
\* them a node_modules, were not examined
C26_Witness ==
    LET deep == HomeDir \o <<Sep, "d", Sep, "d", Sep, "d", Sep, "d">>
    IN /\ scannerPc = "resolved"
       /\ maxDepth = MAX_SCAN_DEPTH
       /\ deep \o <<Sep, "node_modules">> \in ItemPaths
       /\ deep \o <<Sep, "d">> \in VisitedPaths \cap listed
       /\ DepthBelowRoot(deep \o <<Sep, "d">>) = maxDepth
       /\ deep \o <<Sep, "d", Sep, "node_modules">> \in DOMAIN disk \ statted
       /\ deep \o <<Sep, "d", Sep, "f">> \in DOMAIN disk \ statted

\* what a walk without failing calls visits: the root, and every file and
\* every directory that is not ignored, of depth at most maxDepth, in a visited
\* directory that is descended into
RECURSIVE ShouldVisit(_)
ShouldVisit(p) ==
    /\ p \in DOMAIN disk
    /\ DepthBelowRoot(p) <= maxDepth
    /\ \/ disk[p].kind = "file"
       \/ disk[p].kind = "dir" /\ ~isIgnored(IGNORE_DIRS, p)
    /\ \/ p = scanRoot
       \/ /\ IsStrictDescendant(p, scanRoot)
          /\ ShouldVisit(Dirname(p))
          /\ disk[Dirname(p)].kind = "dir"
          /\ Basename(Dirname(p)) # SkipName

\* the failing call was made
FaultHit ==
    \/ fault.op = "lstat" /\ fault.path \in statted
    \/ fault.op = "readdir" /\ fault.path \in listed

\* the subtree of the path whose lstat failed during the walk; for a failed
\* readdir, what is beneath the path
InFailedSubtree(p) ==
    /\ FaultHit
    /\ \/ fault.op = "lstat" /\ (p = fault.path \/ IsStrictDescendant(p, fault.path))
       \/ fault.op = "readdir" /\ IsStrictDescendant(p, fault.path)

\* C27: when lstat or readdir fails with EACCES or ENOENT the walk does not
\* reject and visits everything it visits otherwise except the subtree of the
\* failing path; when it fails with another code the walk rejects and nothing
\* is examined or visited afterwards
C27_WalkErrors ==
    /\ [](InWalk =>
            /\ fault.code \in {"none", "EACCES", "ENOENT"} =>
                  /\ walkPc # "rejected"
                  /\ VisitedPaths \subseteq {p \in DOMAIN disk : ShouldVisit(p)}
                  /\ walkPc = "resolved" =>
                        VisitedPaths = {p \in DOMAIN disk :
                                           ShouldVisit(p) /\ ~InFailedSubtree(p)}
            /\ (fault.code = "EIO" /\ FaultHit) => walkPc = "rejected")
    /\ [][walkPc = "rejected" => UNCHANGED <<visited, statted, listed, walkTodo, walkPc>>]_vars

\* lstat of /u/proj failed with ENOENT: the walk resolved, visited nothing at
\* or below /u/proj and went on to the directories after it
C27_Witness ==
    /\ InWalk
    /\ walkPc = "resolved"
    /\ fault = [path |-> HomeDir \o <<Sep, "proj">>, op |-> "lstat", code |-> "ENOENT"]
    /\ FaultHit
    /\ \A p \in VisitedPaths : ~InFailedSubtree(p)
    /\ HomeDir \o <<Sep, "My", "Pods", "App", Sep, "Pods">> \in VisitedPaths

\* the Pods directories the walks of a PodsScanner.scan found
FoundPods == {foundDirs[i] : i \in 1..Len(foundDirs)}

\* C28: PodsScanner.scan(root) reports a Pods directory found by the walk
\* exactly when no ancestor directory on its path is named 'Pods'; a longer
\* directory name that contains 'Pods' does not exclude it
C28_OutermostPodsOnly ==
    (scanKind = "pods" /\ scannerPc = "resolved") =>
        \A dir \in FoundPods :
            dir \in ItemPaths <=> ~HasAncestorNamed(dir, <<"Pods">>)

\* the paths of the NVM versions the scan reported with isCurrent set
CurrentNvmPaths ==
    IF "nvmVersions" \in DOMAIN scanResults
    THEN {scanResults["nvmVersions"].items[k].path :
            k \in {j \in 1..Len(scanResults["nvmVersions"].items) :
                     scanResults["nvmVersions"].items[j].isCurrent}}
    ELSE {}

\* C29: the NVM version flagged isCurrent is never offered for deletion: no
\* choice promptForCleanup builds (age bucket, size bucket, ALL, the list of
\* specific items) holds it, no selection holds it, and it is not among the
\* items performCleanup works on
C29_CurrentNvmNeverOffered ==
    /\ mainPc = "prompt" =>
        \A c \in 1..Len(promptChoices(scanResults)) :
            \A j \in 1..Len(promptChoices(scanResults)[c].items) :
                LET i == promptChoices(scanResults)[c].items[j]
                IN ~i.isCurrent /\ i.path \notin CurrentNvmPaths
    /\ \A s \in 1..Len(selections) :
        \A j \in 1..Len(selections[s].items) :
            /\ ~selections[s].items[j].isCurrent
            /\ selections[s].items[j].path \notin CurrentNvmPaths
    /\ \A k \in 1..Len(items) : items[k].path \notin CurrentNvmPaths

\* the scan reported the current NVM version next to an old one, the user
\* checked a choice of the nvm category and confirmed, and performCleanup took
\* up the old version
C29_Witness ==
    /\ CurrentNvmPaths # {}
    /\ \E s \in 1..Len(selections) : selections[s].type = "nvm"
    /\ cleanupPc = "loop"
    /\ \E k \in 1..Len(items) : items[k].path = HomeDir \o <<Sep, Dot, "nvm", Sep, "v18">>

\* the ignore rule by names: the base name is an ignored name, or the path ends
\* with a separator followed by an ignore entry
IgnoredByName(p) ==
    \E k \in 1..Len(IGNORE_DIRS) :
        \/ Basename(p) = IGNORE_DIRS[k]
        \/ EndsWith(p, <<Sep>> \o IGNORE_DIRS[k])

\* every directory above p, from the root of the walk on, was visited and listed
RECURSIVE AncestorsDescended(_)
AncestorsDescended(p) ==
    \/ p = scanRoot
    \/ /\ IsStrictDescendant(p, scanRoot)
       /\ Dirname(p) \in listed
       /\ Dirname(p) \in VisitedPaths
       /\ AncestorsDescended(Dirname(p))

\* C30: when a walk without failing calls has resolved, every directory that
\* is not a symbolic link, lies at depth at most maxDepth below directories
\* that were all descended into, and neither has an ignored base name nor a
\* path ending with a separator and an ignore entry, was visited exactly once;
\* a directory whose name merely ends with an ignored name is among them
C30_IgnoredByNameOnly ==
    (InWalk /\ walkPc = "resolved" /\ fault = NoFault) =>
        \A p \in DOMAIN disk :
            (/\ disk[p].kind = "dir"
             /\ DepthBelowRoot(p) <= maxDepth
             /\ AncestorsDescended(p)
             /\ ~IgnoredByName(p)) => TimesVisited(p) = 1
====
